---- MODULE Spec2Model ----
(***************************************************************************)
(* TISS claim-to-XML pipeline: the schema provisioner, the document        *)
(* assembler and the schema validator of services/xml_validator.py and     *)
(* services/xml_generator.py, with the claim XML routes of                 *)
(* api/routes/claims.py that expose them.                                  *)
(*                                                                         *)
(* Strings that the code formats or that a schema type constrains (dates,  *)
(* decimals, numbers, qualified names) are sequences of one-character      *)
(* strings; every other string is a sequence holding the string itself.    *)
(***************************************************************************)
EXTENDS Integers, Sequences, FiniteSets, TLC

(***************************************************************************)
(* Bounds                                                                  *)
(***************************************************************************)
MaxClaims == 1
MaxTicks == 1
MaxRateLimit == 2
RateLimitWindow == 2
MaxTime == 6

(***************************************************************************)
(* Python values                                                           *)
(***************************************************************************)
None == "<None>"

\* the test "is not None" in place of the truth value
Falsy_NoneOnly(v) == v = None

Falsy(v) == v = None \/ v = ""

Digits == <<"0", "1", "2", "3", "4", "5", "6", "7", "8", "9">>

IsDigit(c) == \E i \in 1..10 : Digits[i] = c

DigitVal(c) == (CHOOSE i \in 1..10 : Digits[i] = c) - 1

RECURSIVE IntStr(_)
\* str(n) of a non-negative int
IntStr(n) == IF n < 10 THEN <<Digits[n + 1]>>
             ELSE IntStr(n \div 10) \o <<Digits[(n % 10) + 1]>>

RECURSIVE ZeroPad(_, _)
\* a number format of minimum width w, zero filled (%02d, %04d)
ZeroPad(t, w) == IF Len(t) >= w THEN t ELSE ZeroPad(<<"0">> \o t, w)

\* element.text = v, as the serializer writes it: None and "" both give an
\* element without character data
TextOf(v) == IF Falsy(v) THEN <<>> ELSE <<v>>

(***************************************************************************)
(* datetime.date                                                           *)
(***************************************************************************)
IsLeap(y) == (y % 4 = 0 /\ y % 100 # 0) \/ y % 400 = 0

DaysInMonth(y, m) == IF m = 2 THEN (IF IsLeap(y) THEN 29 ELSE 28)
                     ELSE IF m \in {4, 6, 9, 11} THEN 30 ELSE 31

NextDay(dt) == IF dt.d < DaysInMonth(dt.y, dt.m) THEN [dt EXCEPT !.d = dt.d + 1]
               ELSE IF dt.m < 12 THEN [y |-> dt.y, m |-> dt.m + 1, d |-> 1]
               ELSE [y |-> dt.y + 1, m |-> 1, d |-> 1]

RECURSIVE AddDays(_, _)
\* dt + timedelta(days=n)
AddDays(dt, n) == IF n = 0 THEN dt ELSE AddDays(NextDay(dt), n - 1)

\* dt.strftime("%Y-%m-%d")
Strftime(dt) == ZeroPad(IntStr(dt.y), 4) \o <<"-">> \o ZeroPad(IntStr(dt.m), 2)
                \o <<"-">> \o ZeroPad(IntStr(dt.d), 2)

\* str(Decimal) of a Numeric(10, 2) column; the value is held in hundredths
StrDecimal(c) == IntStr(c \div 100) \o <<".">> \o ZeroPad(IntStr(c % 100), 2)

(***************************************************************************)
(* Stored rows                                                             *)
(***************************************************************************)
PatientRows == {[name |-> "Maria Silva", cpf |-> "123.456.789-01",
                 birth_date |-> [y |-> 1990, m |-> 1, d |-> 1],
                 email |-> "maria.silva@email.com"]}

ProviderRows == {[name |-> "City Hospital", cnpj |-> "12.345.678/0001-90",
                  address |-> "789 Health Blvd", contact |-> "Dr. Smith"]}

PlanRows == {[name |-> "Premium", operator_code |-> "PREMIUM001",
              registration_number |-> "REG123456"]}

ClaimData == {[procedure_code |-> "PROC001", diagnosis_code |-> "DIAG001",
               claim_date |-> [y |-> 2024, m |-> 1, d |-> 15], value |-> 25000,
               description |-> "Regular checkup"],
              [procedure_code |-> None, diagnosis_code |-> None,
               claim_date |-> [y |-> 2024, m |-> 12, d |-> 15], value |-> 1050,
               description |-> None]}

\* ids a claim may carry in its patient_id, provider_id and plan_id columns:
\* the id of the stored row and an id no row has
RefIds == {1, 2}

NoRow == [id |-> 0]

Find(table, id) == IF \E r \in table : r.id = id
                   THEN CHOOSE r \in table : r.id = id
                   ELSE NoRow

\* the id an autoincrement column gives the next row: one past the highest
\* id in the table
NextId(table) ==
    IF table = {} THEN 1
    ELSE (CHOOSE m \in {r.id : r \in table} : \A r \in table : r.id <= m) + 1

WithId(row, id) == [k \in (DOMAIN row) \cup {"id"} |-> IF k = "id" THEN id ELSE row[k]]

(***************************************************************************)
(* xml.etree.ElementTree elements                                          *)
(***************************************************************************)
TissVersion == "3.05.00"

TissXmlns == "http://www.ans.gov.br/padroes/tiss/schemas"

\* the name "ans:<local>" as the code writes it
Ans(local) == <<"ans", ":", local>>

\* ET.Element(tag, attrib) / ET.SubElement(parent, tag)
Element(tag, attrib, kids) == [tag |-> tag, attrib |-> attrib, text |-> <<>>, kids |-> kids]

\* ET.SubElement(parent, tag).text = text
Leaf(tag, text) == [tag |-> tag, attrib |-> <<>>, text |-> text, kids |-> <<>>]

NoElement == [tag |-> <<>>, attrib |-> <<>>, text |-> <<>>, kids |-> <<>>]

(***************************************************************************)
(* TISSXMLGenerator: the three sections                                    *)
(***************************************************************************)
\* the header with the placeholder of the footer as registration number
CreateTissHeader_Placeholder(claim, patient, provider, health_plan, now) ==
    Element(Ans("cabecalho"), <<>>, <<
        Element(Ans("identificacaoOperadora"), <<>>, <<
            Leaf(Ans("codigoOperadora"), TextOf(health_plan.operator_code)),
            Leaf(Ans("registroANS"), TextOf("123456")) >>),
        Element(Ans("dadosPrestador"), <<>>, <<
            Leaf(Ans("cnpjPrestador"), TextOf(provider.cnpj)),
            Leaf(Ans("registroANS"), TextOf("123456")) >>),
        Leaf(Ans("dataProcessamento"), Strftime(now)),
        Leaf(Ans("numeroProtocolo"), IntStr(claim.id)) >>)

\* _create_tiss_header; now is the value datetime.now() returns in it
CreateTissHeader(claim, patient, provider, health_plan, now) ==
    Element(Ans("cabecalho"), <<>>, <<
        Element(Ans("identificacaoOperadora"), <<>>, <<
            Leaf(Ans("codigoOperadora"), TextOf(health_plan.operator_code)),
            Leaf(Ans("registroANS"), TextOf(health_plan.registration_number)) >>),
        Element(Ans("dadosPrestador"), <<>>, <<
            Leaf(Ans("cnpjPrestador"), TextOf(provider.cnpj)),
            Leaf(Ans("registroANS"), TextOf(health_plan.registration_number)) >>),
        Leaf(Ans("dataProcessamento"), Strftime(now)),
        Leaf(Ans("numeroProtocolo"), IntStr(claim.id)) >>)

\* _create_tiss_body
CreateTissBody(claim, patient, provider, health_plan) ==
    Element(Ans("corpo"), <<>>, <<
      Element(Ans("dadosGuia"), <<>>, <<
        Element(Ans("identificacaoGuia"), <<>>, <<
            Leaf(Ans("numeroGuiaPrestador"), IntStr(claim.id)),
            Leaf(Ans("numeroGuiaOperadora"), IntStr(claim.id)),
            Leaf(Ans("dataAutorizacao"), Strftime(claim.claim_date)),
            Leaf(Ans("senha"), TextOf("123456")),
            Leaf(Ans("dataValidadeSenha"), Strftime(AddDays(claim.claim_date, 30))) >>),
        Element(Ans("dadosBeneficiario"), <<>>, <<
            Leaf(Ans("numeroCarteira"), IntStr(patient.id)),
            Leaf(Ans("nomeBeneficiario"), TextOf(patient.name)),
            Leaf(Ans("dataNascimento"), Strftime(patient.birth_date)),
            Leaf(Ans("sexo"), TextOf("I")),
            Leaf(Ans("cpf"), TextOf(patient.cpf)) >>),
        Element(Ans("dadosPrestador"), <<>>, <<
            Leaf(Ans("cnpjPrestador"), TextOf(provider.cnpj)),
            Leaf(Ans("nomePrestador"), TextOf(provider.name)),
            Leaf(Ans("enderecoPrestador"), TextOf(provider.address)) >>),
        Element(Ans("dadosProfissionalExecutante"), <<>>, <<
            Leaf(Ans("nomeProfissional"), TextOf(provider.contact)),
            Leaf(Ans("conselhoProfissional"), TextOf("CRM")),
            Leaf(Ans("numeroRegistroProfissional"), TextOf("12345")),
            Leaf(Ans("ufConselho"), TextOf("SP")),
            Leaf(Ans("cbos"), TextOf("225103")) >>),
        Element(Ans("dadosProcedimento"), <<>>, <<
            Leaf(Ans("codigoProcedimento"), TextOf(claim.procedure_code)),
            Leaf(Ans("descricaoProcedimento"),
                 TextOf(IF Falsy(claim.description) THEN "Procedimento médico"
                        ELSE claim.description)),
            Leaf(Ans("dataProcedimento"), Strftime(claim.claim_date)),
            Leaf(Ans("valorProcedimento"), StrDecimal(claim.value)) >>),
        Element(Ans("diagnostico"), <<>>, <<
            Leaf(Ans("codigoDiagnostico"), TextOf(claim.diagnosis_code)),
            Leaf(Ans("descricaoDiagnostico"), TextOf("Diagnóstico médico")) >>),
        Element(Ans("valoresInformados"), <<>>, <<
            Leaf(Ans("valorTotalGeral"), StrDecimal(claim.value)),
            Leaf(Ans("valorTotalProcedimentos"), StrDecimal(claim.value)) >>) >>) >>)

\* the footer with the clock read into registroANS as well
CreateTissFooter_Dated(claim, provider, now) ==
    Element(Ans("rodape"), <<>>, <<
        Element(Ans("dadosPrestador"), <<>>, <<
            Leaf(Ans("cnpjPrestador"), TextOf(provider.cnpj)),
            Leaf(Ans("registroANS"), Strftime(now)) >>),
        Leaf(Ans("dataProcessamento"), Strftime(now)),
        Leaf(Ans("valorTotalGeral"), StrDecimal(claim.value)) >>)

\* _create_tiss_footer; now is the value datetime.now() returns in it
CreateTissFooter(claim, provider, now) ==
    Element(Ans("rodape"), <<>>, <<
        Element(Ans("dadosPrestador"), <<>>, <<
            Leaf(Ans("cnpjPrestador"), TextOf(provider.cnpj)),
            Leaf(Ans("registroANS"), TextOf("123456")) >>),
        Leaf(Ans("dataProcessamento"), Strftime(now)),
        Leaf(Ans("valorTotalGeral"), StrDecimal(claim.value)) >>)

(***************************************************************************)
(* XML text: what a str holding a document is.  decl says whether the text *)
(* opens with an XML declaration, wf whether the text is well-formed, raw  *)
(* is the text itself when it is not, root the element tree it spells.     *)
(***************************************************************************)
XmlText(decl, root) == [decl |-> decl, wf |-> TRUE, raw |-> "", root |-> root]

BrokenText(raw) == [decl |-> FALSE, wf |-> FALSE, raw |-> raw, root |-> NoElement]

EmptyStr == BrokenText("")

\* ET.tostring(root, encoding='unicode', method='xml'): with the 'unicode'
\* encoding the serializer writes no XML declaration
ToStringUnicode(root) == XmlText(FALSE, root)

(***************************************************************************)
(* lxml: parsing a document.  A name "p:local" is resolved against the     *)
(* xmlns:p declarations in scope; declarations are not attributes of the   *)
(* parsed element.                                                         *)
(***************************************************************************)
IsNsDecl(a) == Len(a.name) = 3 /\ a.name[1] = "xmlns" /\ a.name[2] = ":"

IsNCName(name) == \A i \in 1..Len(name) : name[i] # ":"

\* the xmlns:p declarations among attrib, as <<prefix, uri>> pairs
NsDecls(attrib) == SelectSeq(attrib, IsNsDecl)

PlainAttrib(attrib) == SelectSeq(attrib, LAMBDA a : ~IsNsDecl(a))

\* the declarations in scope: the element's own first, then the inherited
InScope(attrib, nsmap) == NsDecls(attrib) \o nsmap

Bound(prefix, nsmap) == \E i \in 1..Len(nsmap) : nsmap[i].name[3] = prefix

UriOf(prefix, nsmap) ==
    nsmap[CHOOSE i \in 1..Len(nsmap) :
            /\ nsmap[i].name[3] = prefix
            /\ \A j \in 1..(i - 1) : nsmap[j].name[3] # prefix].value

RECURSIVE NamesBound(_, _)
\* every prefixed element name of the tree has its prefix declared
NamesBound(e, nsmap) ==
    LET scope == InScope(e.attrib, nsmap) IN
    /\ (Len(e.tag) = 3 => Bound(e.tag[1], scope))
    /\ \A i \in 1..Len(e.kids) : NamesBound(e.kids[i], scope)

RECURSIVE Resolve(_, _)
\* the parsed element: names in {uri}local form
Resolve(e, nsmap) ==
    LET scope == InScope(e.attrib, nsmap) IN
    [ns     |-> IF Len(e.tag) = 3 THEN UriOf(e.tag[1], scope) ELSE "",
     local  |-> e.tag[Len(e.tag)],
     attrib |-> PlainAttrib(e.attrib),
     text   |-> e.text,
     kids   |-> [i \in 1..Len(e.kids) |-> Resolve(e.kids[i], scope)]]

\* etree.fromstring(text.encode('utf-8')) succeeds
Parses(text) == text.wf /\ NamesBound(text.root, <<>>)

\* etree.fromstring(text.encode('utf-8')), when it succeeds
FromString(text) == Resolve(text.root, <<>>)

(***************************************************************************)
(* XSD: the lexical spaces of the built-in types the schema uses           *)
(***************************************************************************)
AllDigits(t) == Len(t) > 0 /\ \A i \in 1..Len(t) : IsDigit(t[i])

RECURSIVE Number(_)
Number(t) == IF Len(t) = 0 THEN 0
             ELSE 10 * Number(SubSeq(t, 1, Len(t) - 1)) + DigitVal(t[Len(t)])

\* xs:date, without the optional sign and time zone: YYYY-MM-DD of a real day
IsXsDate(t) ==
    /\ Len(t) = 10
    /\ t[5] = "-" /\ t[8] = "-"
    /\ AllDigits(SubSeq(t, 1, 4)) /\ AllDigits(SubSeq(t, 6, 7)) /\ AllDigits(SubSeq(t, 9, 10))
    /\ Number(SubSeq(t, 1, 4)) >= 1
    /\ Number(SubSeq(t, 6, 7)) \in 1..12
    /\ Number(SubSeq(t, 9, 10)) \in 1..DaysInMonth(Number(SubSeq(t, 1, 4)), Number(SubSeq(t, 6, 7)))

\* xs:decimal: an optional sign, digits with at most one point, one digit at least
IsXsDecimal(t) ==
    LET body == IF Len(t) > 0 /\ t[1] \in {"+", "-"} THEN SubSeq(t, 2, Len(t)) ELSE t
        points == {i \in 1..Len(body) : body[i] = "."}
    IN /\ Cardinality(points) <= 1
       /\ \A i \in (1..Len(body)) \ points : IsDigit(body[i])
       /\ Len(body) > Cardinality(points)

IsBuiltin(type) == type \in {"xs:string", "xs:date", "xs:decimal"}

InLexicalSpace(t, type) ==
    CASE type = "xs:date"    -> IsXsDate(t)
      [] type = "xs:decimal" -> IsXsDecimal(t)
      [] OTHER               -> TRUE

(***************************************************************************)
(* The fallback schema that create_basic_tiss_xsd writes                   *)
(***************************************************************************)
XsElement(name, type) == [name |-> name, type |-> type]

XsAttribute(name, use) == [name |-> name, use |-> use]

XsComplexType(name, sequence, attributes) ==
    [name |-> name, sequence |-> sequence, attributes |-> attributes]

\* the attributes declared on the root element's type
BasicXsdRootAttributes ==
    << XsAttribute(<<"version">>, "required"),
       XsAttribute(<<"xmlns", ":", "ans">>, "required") >>

BasicXsd ==
    [targetNamespace |-> TissXmlns,
     element |-> XsElement("mensagemTISS", "(mensagemTISS)"),
     complexTypes |-> <<
       XsComplexType("(mensagemTISS)", <<
           XsElement("cabecalho", "CabecalhoType"),
           XsElement("corpo", "CorpoType"),
           XsElement("rodape", "RodapeType") >>, BasicXsdRootAttributes),
       XsComplexType("CabecalhoType", <<
           XsElement("identificacaoOperadora", "IdentificacaoOperadoraType"),
           XsElement("dadosPrestador", "DadosPrestadorType"),
           XsElement("dataProcessamento", "xs:date"),
           XsElement("numeroProtocolo", "xs:string") >>, <<>>),
       XsComplexType("IdentificacaoOperadoraType", <<
           XsElement("codigoOperadora", "xs:string"),
           XsElement("registroANS", "xs:string") >>, <<>>),
       XsComplexType("DadosPrestadorType", <<
           XsElement("cnpjPrestador", "xs:string"),
           XsElement("registroANS", "xs:string") >>, <<>>),
       XsComplexType("CorpoType", <<
           XsElement("dadosGuia", "DadosGuiaType") >>, <<>>),
       XsComplexType("DadosGuiaType", <<
           XsElement("identificacaoGuia", "IdentificacaoGuiaType"),
           XsElement("dadosBeneficiario", "DadosBeneficiarioType"),
           XsElement("dadosPrestador", "DadosPrestadorGuiaType"),
           XsElement("dadosProfissionalExecutante", "DadosProfissionalType"),
           XsElement("dadosProcedimento", "DadosProcedimentoType"),
           XsElement("diagnostico", "DiagnosticoType"),
           XsElement("valoresInformados", "ValoresInformadosType") >>, <<>>),
       XsComplexType("IdentificacaoGuiaType", <<
           XsElement("numeroGuiaPrestador", "xs:string"),
           XsElement("numeroGuiaOperadora", "xs:string"),
           XsElement("dataAutorizacao", "xs:date"),
           XsElement("senha", "xs:string"),
           XsElement("dataValidadeSenha", "xs:date") >>, <<>>),
       XsComplexType("DadosBeneficiarioType", <<
           XsElement("numeroCarteira", "xs:string"),
           XsElement("nomeBeneficiario", "xs:string"),
           XsElement("dataNascimento", "xs:date"),
           XsElement("sexo", "xs:string"),
           XsElement("cpf", "xs:string") >>, <<>>),
       XsComplexType("DadosPrestadorGuiaType", <<
           XsElement("cnpjPrestador", "xs:string"),
           XsElement("nomePrestador", "xs:string"),
           XsElement("enderecoPrestador", "xs:string") >>, <<>>),
       XsComplexType("DadosProfissionalType", <<
           XsElement("nomeProfissional", "xs:string"),
           XsElement("conselhoProfissional", "xs:string"),
           XsElement("numeroRegistroProfissional", "xs:string"),
           XsElement("ufConselho", "xs:string"),
           XsElement("cbos", "xs:string") >>, <<>>),
       XsComplexType("DadosProcedimentoType", <<
           XsElement("codigoProcedimento", "xs:string"),
           XsElement("descricaoProcedimento", "xs:string"),
           XsElement("dataProcedimento", "xs:date"),
           XsElement("valorProcedimento", "xs:decimal") >>, <<>>),
       XsComplexType("DiagnosticoType", <<
           XsElement("codigoDiagnostico", "xs:string"),
           XsElement("descricaoDiagnostico", "xs:string") >>, <<>>),
       XsComplexType("ValoresInformadosType", <<
           XsElement("valorTotalGeral", "xs:decimal"),
           XsElement("valorTotalProcedimentos", "xs:decimal") >>, <<>>),
       XsComplexType("RodapeType", <<
           XsElement("dadosPrestador", "DadosPrestadorType"),
           XsElement("dataProcessamento", "xs:date"),
           XsElement("valorTotalGeral", "xs:decimal") >>, <<>>) >>]

(***************************************************************************)
(* lxml: etree.XMLSchema(xsd_doc) and XMLSchema.validate(doc)              *)
(***************************************************************************)
Defined(xsd, type) == \E i \in 1..Len(xsd.complexTypes) : xsd.complexTypes[i].name = type

TypeOf(xsd, type) ==
    xsd.complexTypes[CHOOSE i \in 1..Len(xsd.complexTypes) : xsd.complexTypes[i].name = type]

\* etree.XMLSchema(xsd_doc) succeeds: the name of every declared attribute
\* is an NCName and every type referred to is built in or defined
Compiles(xsd) ==
    /\ Defined(xsd, xsd.element.type)
    /\ \A i \in 1..Len(xsd.complexTypes) :
          LET ct == xsd.complexTypes[i] IN
          /\ \A j \in 1..Len(ct.attributes) : IsNCName(ct.attributes[j].name)
          /\ \A j \in 1..Len(ct.sequence) :
                IsBuiltin(ct.sequence[j].type) \/ Defined(xsd, ct.sequence[j].type)

RECURSIVE Diagnostics(_, _, _)
\* the error log of validating element e (parsed) against the type
Diagnostics(xsd, e, type) ==
    IF IsBuiltin(type)
    THEN IF Len(e.kids) > 0 \/ Len(e.attrib) > 0
         THEN << e.local \o ": content not allowed in a simple type" >>
         ELSE IF InLexicalSpace(e.text, type) THEN <<>>
         ELSE << e.local \o ": not a valid value of the atomic type " \o type >>
    ELSE
      LET ct == TypeOf(xsd, type)
          n == Len(ct.sequence)
          declared(a) == \E j \in 1..Len(ct.attributes) : ct.attributes[j].name = a.name
          present(d) == \E j \in 1..Len(e.attrib) : e.attrib[j].name = d.name
          attrErrs ==
              [j \in 1..Len(SelectSeq(e.attrib, LAMBDA a : ~declared(a))) |->
                  e.local \o ": attribute not allowed"]
              \o
              [j \in 1..Len(SelectSeq(ct.attributes,
                                      LAMBDA d : d.use = "required" /\ ~present(d))) |->
                  e.local \o ": required attribute missing"]
          matches(i) == /\ i <= Len(e.kids) /\ i <= n
                        /\ e.kids[i].local = ct.sequence[i].name
                        /\ e.kids[i].ns = xsd.targetNamespace
          \* the child at which the content stops matching the sequence
          stop == IF \E i \in 1..(n + 1) : ~matches(i)
                  THEN CHOOSE i \in 1..(n + 1) : ~matches(i) /\ \A j \in 1..(i - 1) : matches(j)
                  ELSE n + 1
          seqErrs == IF stop = n + 1 /\ Len(e.kids) = n THEN <<>>
                     ELSE IF stop > Len(e.kids)
                          THEN << e.local \o ": missing child element" >>
                          ELSE << e.kids[stop].local \o ": element not expected" >>
          textErrs == IF Len(e.text) > 0
                      THEN << e.local \o ": character content not allowed" >> ELSE <<>>
          RECURSIVE kidErrs(_)
          kidErrs(i) == IF i >= stop THEN <<>>
                        ELSE Diagnostics(xsd, e.kids[i], ct.sequence[i].type) \o kidErrs(i + 1)
      IN attrErrs \o textErrs \o kidErrs(1) \o seqErrs

\* XMLSchema.validate(doc) and its error_log
ErrorLog(xsd, doc) ==
    IF doc.local = xsd.element.name /\ doc.ns = xsd.targetNamespace
    THEN Diagnostics(xsd, doc, xsd.element.type)
    ELSE << doc.local \o ": no matching global declaration" >>

(***************************************************************************)
(* State                                                                   *)
(***************************************************************************)
Workers == {"w1", "w2"}

VARIABLES
    patients, providers, health_plans, claims,  \* the tables, as sets of rows
    xsd_file,      \* what schemas/tiss_3.05.00.xsd holds
    today, ticks,  \* the system clock's date, and how often it has advanced
    pc,            \* where each worker is in its request
    req,           \* the request each worker is serving
    fetched,       \* response.content of the worker's download
    provisioned,   \* what download_tiss_xsd returned to the worker's constructor
    resp,          \* the outcome of the worker's request
    rate_limit_requests,  \* APIKeyAuth.rate_limit_requests
    rate_limit_data,      \* APIKeyAuth.rate_limit_data: key -> (old_time, count)
    current_time,         \* datetime.now(), in seconds
    checked,       \* the last call of check_rate_limit: what it found and returned
    sessions       \* how many database sessions are open: SessionLocal() not yet closed

vars == <<patients, providers, health_plans, claims, xsd_file, today, ticks,
          pc, req, fetched, provisioned, resp,
          rate_limit_requests, rate_limit_data, current_time, checked, sessions>>

auth == <<rate_limit_requests, rate_limit_data, current_time, checked>>

tables == <<patients, providers, health_plans, claims>>

clock == <<today, ticks>>

(***************************************************************************)
(* The schema file                                                         *)
(***************************************************************************)
Absent == "absent"

\* opened for writing and not written: open(path, 'w') leaves an empty file
Truncated == "truncated"

Basic == "basic xsd"

\* what the download may store: a schema, an XML document that is no
\* schema, text that is no XML
FetchedXsd == "fetched xsd"

FetchedXml == "fetched xml"

FetchedText == "fetched text"

Downloads == {FetchedXsd, FetchedXml, FetchedText}

\* the existence check left out
XsdFileExists_Always(file) == TRUE

\* xsd_file_exists
XsdFileExists(file) == file # Absent

\* etree.parse(str(self.tiss_xsd_file)) succeeds
FileParses(file) == file \in {Basic, FetchedXsd, FetchedXml}

\* etree.XMLSchema(xsd_doc) succeeds on the parsed file
FileCompiles(file) ==
    CASE file = Basic      -> Compiles(BasicXsd)
      [] file = FetchedXsd -> TRUE
      [] OTHER             -> FALSE

\* the file's root element binds the prefix xs
FileBindsXs(file) == file \in {Basic, FetchedXsd}

(***************************************************************************)
(* TISSXMLValidator                                                        *)
(***************************************************************************)
XsdFileName == "tiss_3.05.00.xsd"

NotFoundMessage == <<"TISS XSD schema file not found">>

\* a syntax error caught by the handler of Exception
SyntaxErrorMessage_Generic(source) == <<"Validation Error: ", source>>

\* the messages made of an exception of lxml; source is what str(e) names
\* as read, the schema file or the string ("<string>")
SyntaxErrorMessage(source) == <<"XML Syntax Error: ", source>>

SchemaParseErrorMessage(source) == <<"XSD Schema Parse Error: ", source>>

LineMessage(diagnostic) == <<"Line ", diagnostic>>

\* validate_tiss_xml; accepted is the verdict of a downloaded schema on the
\* document, which the repository does not determine
ValidateTissXml(file, text, accepted) ==
    IF ~XsdFileExists(file) THEN [is_valid |-> FALSE, errors |-> <<NotFoundMessage>>]
    ELSE IF ~FileParses(file)
    THEN [is_valid |-> FALSE, errors |-> <<SyntaxErrorMessage(XsdFileName)>>]
    ELSE IF ~FileCompiles(file)
    THEN [is_valid |-> FALSE, errors |-> <<SchemaParseErrorMessage(XsdFileName)>>]
    ELSE IF ~Parses(text)
    THEN [is_valid |-> FALSE, errors |-> <<SyntaxErrorMessage("<string>")>>]
    ELSE IF file = Basic
    THEN LET log == ErrorLog(BasicXsd, FromString(text)) IN
         [is_valid |-> log = <<>>,
          errors |-> [i \in 1..Len(log) |-> LineMessage(log[i])]]
    ELSE IF accepted THEN [is_valid |-> TRUE, errors |-> <<>>]
    ELSE [is_valid |-> FALSE, errors |-> <<LineMessage("element not expected")>>]

\* get_schema_info: its status
GetSchemaInfo(file) ==
    IF ~XsdFileExists(file) THEN "not_found"
    ELSE IF FileParses(file) /\ FileBindsXs(file) THEN "loaded"
    ELSE "error"

\* is_schema_loaded
IsSchemaLoaded(file) == XsdFileExists(file) /\ FileParses(file) /\ FileCompiles(file)

(***************************************************************************)
(* TISSXMLGenerator                                                        *)
(***************************************************************************)
Returned(xml) == [exc |-> "", msg |-> <<>>, xml |-> xml]

Raised(exc, msg) == [exc |-> exc, msg |-> msg, xml |-> EmptyStr]

NotFound(entity, id) == <<entity \o " with ID ", ToString(id), " not found">>

\* the root element with the footer appended before the body
MensagemTiss_FooterFirst(claim, patient, provider, health_plan, now1, now2) ==
    Element(Ans("mensagemTISS"),
            << [name |-> <<"xmlns", ":", "ans">>, value |-> TissXmlns],
               [name |-> <<"version">>, value |-> TissVersion] >>,
            << CreateTissHeader(claim, patient, provider, health_plan, now1),
               CreateTissFooter(claim, provider, now2),
               CreateTissBody(claim, patient, provider, health_plan) >>)

\* the root element with the footer's total in whole units: int(claim.value)
MensagemTiss_WholeUnits(claim, patient, provider, health_plan, now1, now2) ==
    Element(Ans("mensagemTISS"),
            << [name |-> <<"xmlns", ":", "ans">>, value |-> TissXmlns],
               [name |-> <<"version">>, value |-> TissVersion] >>,
            << CreateTissHeader(claim, patient, provider, health_plan, now1),
               CreateTissBody(claim, patient, provider, health_plan),
               CreateTissFooter([claim EXCEPT !.value = (claim.value \div 100) * 100],
                                provider, now2) >>)

\* the root element with its three sections appended
MensagemTiss(claim, patient, provider, health_plan, now1, now2) ==
    Element(Ans("mensagemTISS"),
            << [name |-> <<"xmlns", ":", "ans">>, value |-> TissXmlns],
               [name |-> <<"version">>, value |-> TissVersion] >>,
            << CreateTissHeader(claim, patient, provider, health_plan, now1),
               CreateTissBody(claim, patient, provider, health_plan),
               CreateTissFooter(claim, provider, now2) >>)

\* the try block with the health plan looked up before the provider
GenerateTissXmlBody_PlanFirst(claim_id, now1, now2) ==
    LET claim == Find(claims, claim_id) IN
    IF claim = NoRow THEN Raised("ValueError", NotFound("Claim", claim_id))
    ELSE IF Find(patients, claim.patient_id) = NoRow
    THEN Raised("ValueError", NotFound("Patient", claim.patient_id))
    ELSE IF Find(health_plans, claim.plan_id) = NoRow
    THEN Raised("ValueError", NotFound("Health plan", claim.plan_id))
    ELSE IF Find(providers, claim.provider_id) = NoRow
    THEN Raised("ValueError", NotFound("Provider", claim.provider_id))
    ELSE Returned(ToStringUnicode(
            MensagemTiss(claim, Find(patients, claim.patient_id),
                         Find(providers, claim.provider_id),
                         Find(health_plans, claim.plan_id), now1, now2)))

\* the try block of generate_tiss_xml; now1 and now2 are the two readings
\* of datetime.now(), in the header and in the footer
GenerateTissXmlBody(claim_id, now1, now2) ==
    LET claim == Find(claims, claim_id) IN
    IF claim = NoRow THEN Raised("ValueError", NotFound("Claim", claim_id))
    ELSE LET patient == Find(patients, claim.patient_id) IN
    IF patient = NoRow THEN Raised("ValueError", NotFound("Patient", claim.patient_id))
    ELSE LET provider == Find(providers, claim.provider_id) IN
    IF provider = NoRow THEN Raised("ValueError", NotFound("Provider", claim.provider_id))
    ELSE LET health_plan == Find(health_plans, claim.plan_id) IN
    IF health_plan = NoRow THEN Raised("ValueError", NotFound("Health plan", claim.plan_id))
    ELSE Returned(ToStringUnicode(
            MensagemTiss(claim, patient, provider, health_plan, now1, now2)))

\* generate_tiss_xml: every exception of the try block is raised again as a
\* ValueError whose message is prefixed
GenerateTissXml(claim_id, now1, now2) ==
    LET r == GenerateTissXmlBody(claim_id, now1, now2) IN
    IF r.exc = "" THEN r
    ELSE Raised("ValueError", <<"Error generating XML: ">> \o r.msg)

\* db = SessionLocal()
SessionLocal(n) == n + 1

\* db.close()
Close(n) == n - 1

\* the session closed on the path that returns only
SessionsAfter_NoFinally(n, r) ==
    IF r.exc = "" THEN Close(SessionLocal(n)) ELSE SessionLocal(n)

\* generate_tiss_xml: the sessions open after the call that ended as r; the
\* session is opened before the try block and closed in its finally clause
SessionsAfter(n, r) == Close(SessionLocal(n))

\* generate_tiss_xml_with_validation
GenerateTissXmlWithValidation(file, claim_id, now1, now2, accepted) ==
    LET r == GenerateTissXml(claim_id, now1, now2) IN
    IF r.exc = ""
    THEN LET v == ValidateTissXml(file, r.xml, accepted) IN
         [exc |-> "", msg |-> <<>>, xml |-> r.xml, is_valid |-> v.is_valid,
          errors |-> v.errors]
    ELSE [exc |-> "", msg |-> <<>>, xml |-> EmptyStr, is_valid |-> FALSE,
          errors |-> << <<"Error generating XML: ">> \o r.msg >>]

(***************************************************************************)
(* The claim XML routes of api/routes/claims.py                            *)
(***************************************************************************)
RECURSIVE Join(_)
\* '; '.join(errors)
Join(errors) == IF Len(errors) = 0 THEN <<>>
                ELSE IF Len(errors) = 1 THEN errors[1]
                ELSE errors[1] \o <<"; ">> \o Join(Tail(errors))

HttpResponse(status, detail, g) ==
    [exc |-> "", msg |-> <<>>, status |-> status, detail |-> detail, xml |-> g.xml,
     is_valid |-> g.is_valid, errors |-> g.errors]

\* get_claim_xml and download_claim_xml: the same handling around
\* generate_tiss_xml_with_validation
ClaimXmlRoute(g) ==
    IF g.exc = "ValueError" THEN HttpResponse(404, g.msg, g)
    ELSE IF g.exc # "" THEN HttpResponse(500, <<"Error generating XML: ">>, g)
    ELSE IF ~g.is_valid
    THEN HttpResponse(422, <<"Generated XML failed validation: ">> \o Join(g.errors), g)
    ELSE HttpResponse(200, <<>>, g)

\* get_claim_xml
GetClaimXml(file, claim_id, now1, now2, accepted) ==
    ClaimXmlRoute(GenerateTissXmlWithValidation(file, claim_id, now1, now2, accepted))

\* download_claim_xml
DownloadClaimXml(file, claim_id, now1, now2, accepted) ==
    ClaimXmlRoute(GenerateTissXmlWithValidation(file, claim_id, now1, now2, accepted))

\* validate_claim_xml
ValidateClaimXml(file, claim_id, now1, now2, accepted) ==
    LET g == GenerateTissXmlWithValidation(file, claim_id, now1, now2, accepted) IN
    IF g.exc = "ValueError" THEN HttpResponse(404, g.msg, g)
    ELSE IF g.exc # "" THEN HttpResponse(500, <<"Error validating claim XML: ">>, g)
    ELSE HttpResponse(200, <<>>, g)

(***************************************************************************)
(* APIKeyAuth.check_rate_limit of middleware/auth.py.  rate_limit_data is  *)
(* a function from the keys seen to (old_time, count).                     *)
(***************************************************************************)
ClientIps == {"192.168.1.100", "192.168.1.101"}

ApiKeys == {"default-secure-api-key-2024"}

\* key = f"{client_ip}:{api_key}"
RateLimitKey(client_ip, api_key) == client_ip \o ":" \o api_key

NoCheck == [key |-> "", found |-> FALSE, old_time |-> 0, count |-> 0, result |-> FALSE]

\* data with data[key] = (old_time, count)
Store(data, key, old_time, count) ==
    [k \in (DOMAIN data) \cup {key} |->
        IF k = key THEN [old_time |-> old_time, count |-> count] ELSE data[k]]

\* check_rate_limit with a blocked call restarting the window
CheckRateLimitResult_Sliding(data, key, now, limit) ==
    IF key \notin DOMAIN data
    THEN [data |-> Store(data, key, now, 1), result |-> TRUE]
    ELSE IF now - data[key].old_time > RateLimitWindow
    THEN [data |-> Store(data, key, now, 1), result |-> TRUE]
    ELSE IF data[key].count >= limit
    THEN [data |-> Store(data, key, now, data[key].count), result |-> FALSE]
    ELSE [data |-> Store(data, key, data[key].old_time, data[key].count + 1),
          result |-> TRUE]

\* check_rate_limit: the dictionary after the call, and what it returns
CheckRateLimitResult(data, key, now, limit) ==
    IF key \in DOMAIN data /\ now - data[key].old_time > RateLimitWindow
    THEN [data |-> Store(data, key, now, 1), result |-> TRUE]
    ELSE IF key \notin DOMAIN data
    THEN [data |-> Store(data, key, now, 1), result |-> TRUE]
    ELSE IF data[key].count >= limit
    THEN [data |-> data, result |-> FALSE]
    ELSE [data |-> Store(data, key, data[key].old_time, data[key].count + 1),
          result |-> TRUE]

(***************************************************************************)
(* Requests                                                                *)
(***************************************************************************)
ClaimIds == 1..(MaxClaims + 1)

\* a well-formed document that is no TISS message
OtherDocument ==
    XmlText(TRUE, Element(<<"root">>, <<>>, << Leaf(<<"element">>, <<"content">>) >>))

\* strings handed to validate_tiss_xml: two that are not well-formed, a
\* foreign document, and the documents generate_tiss_xml returns
InputTexts ==
    {BrokenText("<invalid><unclosed></invalid>"), EmptyStr, OtherDocument}
    \cup {GenerateTissXml(c, today, today).xml : c \in {r.id : r \in claims}}

NoRequest == [op |-> "", claim_id |-> 0, text |-> EmptyStr]

NoResponse == [exc |-> "", msg |-> <<>>, xml |-> EmptyStr, is_valid |-> FALSE,
               errors |-> <<>>, status |-> 0, detail |-> <<>>, info |-> ""]

\* APIKeyAuth.__init__ with RATE_LIMIT_REQUESTS = limit
AuthInit(limit) ==
    /\ rate_limit_requests = limit
    /\ rate_limit_data = <<>>
    /\ current_time = 0
    /\ checked = NoCheck

Init ==
    /\ patients = {WithId(row, 1) : row \in PatientRows}
    /\ providers = {WithId(row, 1) : row \in ProviderRows}
    /\ health_plans = {WithId(row, 1) : row \in PlanRows}
    /\ claims = {}
    /\ xsd_file = Absent
    /\ today = [y |-> 2024, m |-> 12, d |-> 31] /\ ticks = 0
    /\ pc = [w \in Workers |-> "idle"]
    /\ req = [w \in Workers |-> NoRequest]
    /\ fetched = [w \in Workers |-> Absent]
    /\ provisioned = [w \in Workers |-> "not run"]
    /\ resp = [w \in Workers |-> NoResponse]
    /\ AuthInit(MaxRateLimit)
    /\ sessions = 0

(***************************************************************************)
(* Rows committed through a database session                               *)
(***************************************************************************)
\* a claim row; the foreign keys are not enforced on insert
AddClaim ==
    /\ Cardinality(claims) < MaxClaims
    /\ \E data \in ClaimData, p \in RefIds, v \in RefIds, h \in RefIds :
          claims' = claims \cup
              {[id |-> NextId(claims), patient_id |-> p, provider_id |-> v, plan_id |-> h,
                procedure_code |-> data.procedure_code,
                diagnosis_code |-> data.diagnosis_code,
                claim_date |-> data.claim_date, value |-> data.value,
                description |-> data.description, status |-> "pending"]}
    /\ UNCHANGED <<auth, sessions, patients, providers, health_plans, xsd_file, clock, pc, req, fetched,
                   provisioned, resp>>

\* the system clock passes midnight
Midnight ==
    /\ ticks < MaxTicks
    /\ today' = NextDay(today) /\ ticks' = ticks + 1
    /\ UNCHANGED <<auth, sessions, tables, xsd_file, pc, req, fetched, provisioned, resp>>

(***************************************************************************)
(* A request: the worker builds a TISSXMLGenerator or a TISSXMLValidator,  *)
(* whose constructor provisions the schema file, then runs the operation.  *)
(***************************************************************************)
Interleaved == "interleaved"

\* the file after content is written at offset 0 through a handle opened
\* when the file was empty: over bytes another writer stored since, the
\* result is the content or a mix of both
Overwrite(file, content) ==
    IF file \in {Absent, Truncated, content} THEN {content} ELSE {content, Interleaved}

\* a caller constructs the service object of its request
Begin(w) ==
    /\ pc[w] = "idle"
    /\ pc' = [pc EXCEPT ![w] = "init"]
    /\ UNCHANGED <<auth, sessions, tables, xsd_file, clock, req, fetched, provisioned, resp>>

\* TISSXMLValidator.__init__: download only if the file does not exist
ValidatorInit(w) ==
    /\ pc[w] = "init"
    /\ pc' = [pc EXCEPT ![w] = IF XsdFileExists(xsd_file) THEN "constructed" ELSE "get"]
    /\ UNCHANGED <<auth, sessions, tables, xsd_file, clock, req, fetched, provisioned, resp>>

\* TISSXMLValidator.__init__: self.xsd_directory.mkdir(exist_ok=True) raises
\* OSError, which nothing catches: the constructor raises
ValidatorInitRaises(w) ==
    /\ pc[w] = "init"
    /\ pc' = [pc EXCEPT ![w] = "raised"]
    /\ UNCHANGED <<auth, sessions, tables, xsd_file, clock, req, fetched, provisioned, resp>>

\* download_tiss_xsd: requests.get and raise_for_status succeed
DownloadGet(w) ==
    /\ pc[w] = "get"
    /\ \E content \in Downloads : fetched' = [fetched EXCEPT ![w] = content]
    /\ pc' = [pc EXCEPT ![w] = "open wb"]
    /\ UNCHANGED <<auth, sessions, tables, xsd_file, clock, req, provisioned, resp>>

\* the failed fetch is followed by another look at the file and another fetch
DownloadGetFails_Retry(w) ==
    /\ pc[w] = "get"
    /\ pc' = [pc EXCEPT ![w] = "init"]
    /\ UNCHANGED <<auth, sessions, tables, xsd_file, clock, req, fetched, provisioned, resp>>

\* download_tiss_xsd: a RequestException; the handler calls create_basic_tiss_xsd
DownloadGetFails(w) ==
    /\ pc[w] = "get"
    /\ pc' = [pc EXCEPT ![w] = "open w"]
    /\ UNCHANGED <<auth, sessions, tables, xsd_file, clock, req, fetched, provisioned, resp>>

\* download_tiss_xsd: open(self.tiss_xsd_file, 'wb')
DownloadOpen(w) ==
    /\ pc[w] = "open wb"
    /\ xsd_file' = Truncated
    /\ pc' = [pc EXCEPT ![w] = "write wb"]
    /\ UNCHANGED <<auth, sessions, tables, clock, req, fetched, provisioned, resp>>

\* download_tiss_xsd: f.write(response.content) and the close
DownloadWrite(w) ==
    /\ pc[w] = "write wb"
    /\ xsd_file' \in Overwrite(xsd_file, fetched[w])
    /\ provisioned' = [provisioned EXCEPT ![w] = "True"]
    /\ pc' = [pc EXCEPT ![w] = "constructed"]
    /\ UNCHANGED <<auth, sessions, tables, clock, req, fetched, resp>>

\* download_tiss_xsd: the open or the write raises OSError; the handler of
\* Exception calls create_basic_tiss_xsd
DownloadStoreFails(w) ==
    /\ pc[w] \in {"open wb", "write wb"}
    /\ pc' = [pc EXCEPT ![w] = "open w"]
    /\ UNCHANGED <<auth, sessions, tables, xsd_file, clock, req, fetched, provisioned, resp>>

\* create_basic_tiss_xsd: open(self.tiss_xsd_file, 'w', encoding='utf-8')
BasicOpen(w) ==
    /\ pc[w] = "open w"
    /\ xsd_file' = Truncated
    /\ pc' = [pc EXCEPT ![w] = "write w"]
    /\ UNCHANGED <<auth, sessions, tables, clock, req, fetched, provisioned, resp>>

\* create_basic_tiss_xsd: f.write(basic_xsd) and the close; returns True
BasicWrite(w) ==
    /\ pc[w] = "write w"
    /\ xsd_file' \in Overwrite(xsd_file, Basic)
    /\ provisioned' = [provisioned EXCEPT ![w] = "True"]
    /\ pc' = [pc EXCEPT ![w] = "constructed"]
    /\ UNCHANGED <<auth, sessions, tables, clock, req, fetched, resp>>

\* the open or the write raises and nothing catches it
BasicStoreFails_Raises(w) ==
    /\ pc[w] \in {"open w", "write w"}
    /\ pc' = [pc EXCEPT ![w] = "raised"]
    /\ UNCHANGED <<auth, sessions, tables, xsd_file, clock, req, fetched, provisioned, resp>>

\* create_basic_tiss_xsd: the open or the write raises; the handler prints
\* the error and returns False, and the constructor returns normally
BasicStoreFails(w) ==
    /\ pc[w] \in {"open w", "write w"}
    /\ provisioned' = [provisioned EXCEPT ![w] = "False"]
    /\ pc' = [pc EXCEPT ![w] = "constructed"]
    /\ UNCHANGED <<auth, sessions, tables, xsd_file, clock, req, fetched, resp>>

(***************************************************************************)
(* The operation of the request, run on the constructed object.  Document  *)
(* generation reads datetime.now() twice; midnight says the date changed   *)
(* between the two readings.                                               *)
(***************************************************************************)
Footer(midnight) == IF midnight THEN NextDay(today) ELSE today

Reads(midnight) ==
    /\ midnight => ticks < MaxTicks
    /\ today' = Footer(midnight)
    /\ ticks' = IF midnight THEN ticks + 1 ELSE ticks

Answer(w, op, claim_id, text, r) ==
    /\ req' = [req EXCEPT ![w] = [op |-> op, claim_id |-> claim_id, text |-> text]]
    /\ resp' = [resp EXCEPT ![w] =
                  [k \in DOMAIN NoResponse |-> IF k \in DOMAIN r THEN r[k] ELSE NoResponse[k]]]
    /\ pc' = [pc EXCEPT ![w] = "done"]

Constructed(w) == pc[w] = "constructed"

DoGenerateTissXml(w) ==
    /\ Constructed(w)
    /\ \E claim_id \in ClaimIds, midnight \in BOOLEAN :
          /\ Reads(midnight)
          /\ sessions' = SessionsAfter(sessions, GenerateTissXml(claim_id, today,
                                                                Footer(midnight)))
          /\ Answer(w, "generate_tiss_xml", claim_id, EmptyStr,
                    GenerateTissXml(claim_id, today, Footer(midnight)))
    /\ UNCHANGED <<auth, tables, xsd_file, fetched, provisioned>>

DoGenerateTissXmlWithValidation(w) ==
    /\ Constructed(w)
    /\ \E claim_id \in ClaimIds, midnight \in BOOLEAN, accepted \in BOOLEAN :
          /\ Reads(midnight)
          /\ sessions' = SessionsAfter(sessions, GenerateTissXml(claim_id, today,
                                                                Footer(midnight)))
          /\ Answer(w, "generate_tiss_xml_with_validation", claim_id, EmptyStr,
                    GenerateTissXmlWithValidation(xsd_file, claim_id, today,
                                                  Footer(midnight), accepted))
    /\ UNCHANGED <<auth, tables, xsd_file, fetched, provisioned>>

DoGetClaimXml(w) ==
    /\ Constructed(w)
    /\ \E claim_id \in ClaimIds, midnight \in BOOLEAN, accepted \in BOOLEAN :
          /\ Reads(midnight)
          /\ sessions' = SessionsAfter(sessions, GenerateTissXml(claim_id, today,
                                                                Footer(midnight)))
          /\ Answer(w, "get_claim_xml", claim_id, EmptyStr,
                    GetClaimXml(xsd_file, claim_id, today, Footer(midnight), accepted))
    /\ UNCHANGED <<auth, tables, xsd_file, fetched, provisioned>>

DoDownloadClaimXml(w) ==
    /\ Constructed(w)
    /\ \E claim_id \in ClaimIds, midnight \in BOOLEAN, accepted \in BOOLEAN :
          /\ Reads(midnight)
          /\ sessions' = SessionsAfter(sessions, GenerateTissXml(claim_id, today,
                                                                Footer(midnight)))
          /\ Answer(w, "download_claim_xml", claim_id, EmptyStr,
                    DownloadClaimXml(xsd_file, claim_id, today, Footer(midnight), accepted))
    /\ UNCHANGED <<auth, tables, xsd_file, fetched, provisioned>>

DoValidateClaimXml(w) ==
    /\ Constructed(w)
    /\ \E claim_id \in ClaimIds, midnight \in BOOLEAN, accepted \in BOOLEAN :
          /\ Reads(midnight)
          /\ sessions' = SessionsAfter(sessions, GenerateTissXml(claim_id, today,
                                                                Footer(midnight)))
          /\ Answer(w, "validate_claim_xml", claim_id, EmptyStr,
                    ValidateClaimXml(xsd_file, claim_id, today, Footer(midnight), accepted)
                    @@ [info |-> GetSchemaInfo(xsd_file)])
    /\ UNCHANGED <<auth, tables, xsd_file, fetched, provisioned>>

DoValidateTissXml(w) ==
    /\ Constructed(w)
    /\ \E text \in InputTexts, accepted \in BOOLEAN :
          Answer(w, "validate_tiss_xml", 0, text, ValidateTissXml(xsd_file, text, accepted))
    /\ UNCHANGED <<auth, sessions, tables, xsd_file, clock, fetched, provisioned>>

DoGetSchemaInfo(w) ==
    /\ Constructed(w)
    /\ Answer(w, "get_schema_info", 0, EmptyStr, [info |-> GetSchemaInfo(xsd_file)])
    /\ UNCHANGED <<auth, sessions, tables, xsd_file, clock, fetched, provisioned>>

\* the request was the construction alone
DoConstruct(w) ==
    /\ Constructed(w)
    /\ Answer(w, "construct", 0, EmptyStr, [info |-> ""])
    /\ UNCHANGED <<auth, sessions, tables, xsd_file, clock, fetched, provisioned>>

\* the caller has the outcome; the objects of the request are dropped
Finish(w) ==
    /\ pc[w] \in {"done", "raised"}
    /\ pc' = [pc EXCEPT ![w] = "idle"]
    /\ req' = [req EXCEPT ![w] = NoRequest]
    /\ fetched' = [fetched EXCEPT ![w] = Absent]
    /\ provisioned' = [provisioned EXCEPT ![w] = "not run"]
    /\ resp' = [resp EXCEPT ![w] = NoResponse]
    /\ UNCHANGED <<auth, sessions, tables, xsd_file, clock>>

Provision(w) ==
    \/ ValidatorInit(w)
    \/ ValidatorInitRaises(w)
    \/ DownloadGet(w)
    \/ DownloadGetFails(w)
    \/ DownloadOpen(w)
    \/ DownloadWrite(w)
    \/ DownloadStoreFails(w)
    \/ BasicOpen(w)
    \/ BasicWrite(w)
    \/ BasicStoreFails(w)

Operate(w) ==
    \/ DoGenerateTissXml(w)
    \/ DoGenerateTissXmlWithValidation(w)
    \/ DoGetClaimXml(w)
    \/ DoDownloadClaimXml(w)
    \/ DoValidateClaimXml(w)
    \/ DoValidateTissXml(w)
    \/ DoGetSchemaInfo(w)
    \/ DoConstruct(w)

\* requests served one at a time
Next ==
    \/ AddClaim
    \/ Midnight
    \/ Begin("w1")
    \/ Provision("w1")
    \/ Operate("w1")
    \/ Finish("w1")

Spec == Init /\ [][Next]_vars

(***************************************************************************)
(* Properties                                                              *)
(***************************************************************************)
\* worker w's operation op returns or raises in this step
Called(w, op) == pc[w] = "constructed" /\ pc'[w] = "done" /\ req'[w].op = op

Has(table, id) == \E r \in table : r.id = id

Row(table, id) == CHOOSE r \in table : r.id = id

\* the message says "<entity> with ID <id> not found"
Names(msg, entity, id) ==
    \E i \in 1..(Len(msg) - 2) :
        /\ msg[i] = entity \o " with ID "
        /\ msg[i + 1] = ToString(id)
        /\ msg[i + 2] = " not found"

\* claim c and its patient, provider and health plan all resolve
Resolves(c) ==
    /\ Has(claims, c)
    /\ Has(patients, Row(claims, c).patient_id)
    /\ Has(providers, Row(claims, c).provider_id)
    /\ Has(health_plans, Row(claims, c).plan_id)

\* the entity type and id of the first lookup of generate_tiss_xml that
\* finds nothing, in the order claim, patient, provider, health plan
FirstMissing(c) ==
    IF ~Has(claims, c) THEN <<"Claim", c>>
    ELSE IF ~Has(patients, Row(claims, c).patient_id)
    THEN <<"Patient", Row(claims, c).patient_id>>
    ELSE IF ~Has(providers, Row(claims, c).provider_id)
    THEN <<"Provider", Row(claims, c).provider_id>>
    ELSE <<"Health plan", Row(claims, c).plan_id>>

\* C1: generate_tiss_xml checks claim, patient, provider and health plan in
\* that order; the first lookup that finds nothing raises a ValueError whose
\* message names that entity type and the missing id, and no XML is
\* returned; when all four resolve it returns a document.
C1_NotFoundInOrder ==
    [][\A w \in Workers : Called(w, "generate_tiss_xml") =>
          LET c == req'[w].claim_id
              r == resp'[w]
          IN IF Resolves(c) THEN r.exc = "" /\ r.xml.wf
             ELSE /\ r.exc = "ValueError"
                  /\ Names(r.msg, FirstMissing(c)[1], FirstMissing(c)[2])
                  /\ \A e \in {"Claim", "Patient", "Provider", "Health plan"} \ {FirstMissing(c)[1]} :
                        \A id \in 0..3 : ~Names(r.msg, e, id)
                  /\ r.xml = EmptyStr]_vars

\* generate_tiss_xml has raised for a claim whose provider and health plan
\* are both missing, and the error names the provider
C1_Witness ==
    \E w \in Workers :
        /\ pc[w] = "done" /\ req[w].op = "generate_tiss_xml"
        /\ Has(claims, req[w].claim_id)
        /\ Has(patients, Row(claims, req[w].claim_id).patient_id)
        /\ Row(claims, req[w].claim_id).provider_id = 2
        /\ Row(claims, req[w].claim_id).plan_id = 2
        /\ resp[w].exc = "ValueError"
        /\ Names(resp[w].msg, "Provider", 2)

\* C2: generate_tiss_xml_with_validation returns the generated XML whatever
\* the validation says, and raises the not-found ValueError exactly when the
\* claim or one of its references does not resolve.
C2_RaisesOnlyNotFound ==
    [][\A w \in Workers : Called(w, "generate_tiss_xml_with_validation") =>
          LET c == req'[w].claim_id
              r == resp'[w]
          IN IF Resolves(c) THEN r.exc = "" /\ r.xml.wf
             ELSE /\ r.exc = "ValueError"
                  /\ Names(r.msg, FirstMissing(c)[1], FirstMissing(c)[2])]_vars

XmlRoutes == {"get_claim_xml", "download_claim_xml", "validate_claim_xml"}

\* C3: the three claim XML routes answer a claim id that does not exist
\* with status 404 and a detail containing "not found".
C3_MissingClaimIs404 ==
    [][\A w \in Workers : \A op \in XmlRoutes :
          Called(w, op) /\ ~Has(claims, req'[w].claim_id) =>
              /\ resp'[w].status = 404
              /\ \E i \in 1..Len(resp'[w].detail) : resp'[w].detail[i] = " not found"]_vars

\* the text is a document of generate_tiss_xml
IsTissMessage(text) == text.wf /\ text.root.tag = <<"ans", ":", "mensagemTISS">>

\* C4: round trip: against the fallback schema written by
\* create_basic_tiss_xsd, validating the document generated for a claim whose
\* references resolve gives (true, []).
C4_RoundTrip ==
    [][\A w \in Workers :
          /\ Called(w, "validate_tiss_xml") /\ xsd_file = "basic xsd"
               /\ IsTissMessage(req'[w].text)
             => resp'[w].is_valid /\ resp'[w].errors = <<>>
          /\ Called(w, "generate_tiss_xml_with_validation") /\ xsd_file = "basic xsd"
               /\ Resolves(req'[w].claim_id)
             => resp'[w].is_valid /\ resp'[w].errors = <<>>]_vars

HasAttribute(e, name, value) ==
    \E i \in 1..Len(e.attrib) : e.attrib[i].name = name /\ e.attrib[i].value = value

\* C5: the XML generated for a claim whose references resolve starts with
\* an XML declaration and has the root ans:mensagemTISS with the fixed
\* xmlns:ans and version attributes.
C5_DeclarationAndRoot ==
    [][\A w \in Workers :
          \A op \in {"generate_tiss_xml", "generate_tiss_xml_with_validation"} :
              Called(w, op) /\ Resolves(req'[w].claim_id) =>
                  LET x == resp'[w].xml IN
                  /\ x.wf /\ x.decl
                  /\ x.root.tag = <<"ans", ":", "mensagemTISS">>
                  /\ HasAttribute(x.root, <<"xmlns", ":", "ans">>,
                                  "http://www.ans.gov.br/padroes/tiss/schemas")
                  /\ HasAttribute(x.root, <<"version">>, "3.05.00")]_vars

SyntaxErrorOfInput == <<"XML Syntax Error: ", "<string>">>

\* C7 as stated: a string that is not well-formed XML always gets
\* (false, errors) with a syntax error about the XML, in every state of the
\* schema file.
C7_MalformedAlwaysSyntaxError ==
    [][\A w \in Workers : Called(w, "validate_tiss_xml") /\ ~req'[w].text.wf =>
          /\ resp'[w].exc = "" /\ ~resp'[w].is_valid
          /\ \E i \in 1..Len(resp'[w].errors) : resp'[w].errors[i] = SyntaxErrorOfInput]_vars

\* C7 amended: a string that is not well-formed XML never raises and gets
\* (false, [one message]); the message is the syntax error about the XML
\* when the schema file loads as a schema, the not-found message when the
\* file is missing, and a message about the schema file otherwise.
C7_MalformedRejected ==
    [][\A w \in Workers : Called(w, "validate_tiss_xml") /\ ~req'[w].text.wf =>
          /\ resp'[w].exc = "" /\ ~resp'[w].is_valid
          /\ Len(resp'[w].errors) = 1
          /\ IF xsd_file = "absent"
             THEN resp'[w].errors[1] = <<"TISS XSD schema file not found">>
             ELSE IF IsSchemaLoaded(xsd_file)
             THEN resp'[w].errors[1] = SyntaxErrorOfInput
             ELSE resp'[w].errors[1][2] = "tiss_3.05.00.xsd"]_vars

\* validate_tiss_xml has answered a string that is not well-formed with the
\* syntax error, under a schema that loads
C7_Witness ==
    \E w \in Workers :
        /\ pc[w] = "done" /\ req[w].op = "validate_tiss_xml"
        /\ ~req[w].text.wf /\ IsSchemaLoaded(xsd_file)
        /\ resp[w].errors = <<SyntaxErrorOfInput>>

\* C8: when the schema file exists and does not load (not well-formed, or
\* no valid schema), validate_tiss_xml answers every input with
\* (false, [one schema parse error]).
C8_SchemaParseError ==
    [][\A w \in Workers :
          Called(w, "validate_tiss_xml") /\ xsd_file # "absent"
              /\ ~(FileParses(xsd_file) /\ FileCompiles(xsd_file)) =>
                /\ resp'[w].exc = "" /\ ~resp'[w].is_valid
                /\ Len(resp'[w].errors) = 1
                /\ resp'[w].errors[1][1] = "XSD Schema Parse Error: "]_vars

\* the constructor of worker w returns in this step, download_tiss_xsd
\* having run in it
Provisioned(w) ==
    pc[w] # "constructed" /\ pc'[w] = "constructed" /\ provisioned'[w] # "not run"

\* C9 as stated: download_tiss_xsd returns true exactly when a schema file
\* exists afterwards.
C9_TrueIffFileExists ==
    [][\A w \in Workers : Provisioned(w) =>
          (provisioned'[w] = "True" <=> xsd_file' # "absent")]_vars

ConstructedOverEmpty(w) == pc[w] = "constructed" /\ provisioned[w] # "not run"

\* C19 as stated: right after a validator is constructed over a directory
\* with no schema file, xsd_file_exists() and is_schema_loaded() are false,
\* get_schema_info() reports not_found and validate_tiss_xml answers every
\* input with (false, [schema file not found]).
C19_NoSchemaAfterConstruction ==
    \A w \in Workers : ConstructedOverEmpty(w) =>
        /\ ~XsdFileExists(xsd_file)
        /\ ~IsSchemaLoaded(xsd_file)
        /\ GetSchemaInfo(xsd_file) = "not_found"
        /\ \A text \in InputTexts, accepted \in BOOLEAN :
              ValidateTissXml(xsd_file, text, accepted) =
                  [is_valid |-> FALSE, errors |-> <<NotFoundMessage>>]

(***************************************************************************)
(* The steps of one provisioning                                           *)
(***************************************************************************)
\* worker w's constructor takes a step
Steps(w) == pc'[w] # pc[w]

\* what every constructor does about the fetch: none when the file exists,
\* the file being left as it is; one when it is absent, entered from the
\* existence check alone and left for the store or for the fallback
OneFetch(w) ==
    /\ Steps(w) /\ pc[w] = "init" /\ pc'[w] # "raised" =>
          IF XsdFileExists(xsd_file)
          THEN pc'[w] = "constructed" /\ xsd_file' = xsd_file /\ fetched'[w] = "absent"
               /\ provisioned'[w] = "not run"
          ELSE pc'[w] = "get"
    /\ Steps(w) /\ pc'[w] = "init" => pc[w] = "idle"
    /\ Steps(w) /\ pc'[w] = "get" => pc[w] = "init"
    /\ Steps(w) /\ pc[w] = "get" => pc'[w] \in {"open wb", "open w"}
    /\ Steps(w) /\ pc[w] \in {"open wb", "write wb", "open w", "write w"} =>
          pc'[w] \notin {"init", "get"}

\* C20 as stated: a constructor makes no fetch when the file exists and
\* leaves it unchanged, makes exactly one fetch when it is absent, and the
\* fallback synthesis begins only when that fetch failed.
C20_FallbackOnlyAfterFailedFetch ==
    [][\A w \in Workers :
          /\ OneFetch(w)
          /\ Steps(w) /\ pc'[w] = "open w" =>
                pc[w] = "get" /\ fetched[w] = "absent"]_vars

\* C20 amended: a constructor makes no fetch when the file exists and
\* leaves it unchanged, makes exactly one fetch when it is absent, never a
\* second, and the fallback synthesis begins only when that fetch failed or
\* when storing what it fetched failed.
C20_SingleFetchThenFallback ==
    [][\A w \in Workers :
          /\ OneFetch(w)
          /\ Steps(w) /\ pc'[w] = "open w" =>
                \/ pc[w] = "get" /\ fetched[w] = "absent"
                \/ pc[w] \in {"open wb", "write wb"} /\ fetched[w] # "absent"]_vars

\* the fallback synthesis has begun after a fetch that succeeded
C20_Witness ==
    \E w \in Workers : pc[w] = "open w" /\ fetched[w] # "absent"

(***************************************************************************)
(* Two validators constructed at once over the same schema directory       *)
(***************************************************************************)
\* the constructors of both workers, their steps interleaved
RaceNext ==
    \E w \in Workers : Begin(w) \/ Provision(w) \/ DoConstruct(w) \/ Finish(w)

SpecRace == Init /\ [][RaceNext]_vars

\* both constructors have returned, each write of the file having succeeded
BothConstructed ==
    /\ \A w \in Workers : pc[w] = "constructed" /\ provisioned[w] # "False"
    /\ \E w \in Workers : provisioned[w] = "True"

\* C11: once two racing constructors have both finished (no write having
\* failed), the schema file exists and holds one complete content, that of
\* the last writer; when both fell back it is the fallback schema.
C11_LastWriterWins ==
    BothConstructed =>
        /\ xsd_file \in {"basic xsd", "fetched xsd", "fetched xml", "fetched text"}
        /\ \E w \in Workers :
              provisioned[w] = "True" /\ xsd_file \in {fetched[w], "basic xsd"}
        /\ (\A w \in Workers : provisioned[w] = "True" /\ fetched[w] = "absent")
              => xsd_file = "basic xsd"

(***************************************************************************)
(* Two callers of generate_tiss_xml, the schema file being in place        *)
(***************************************************************************)
TwiceInit ==
    /\ patients = {WithId(row, 1) : row \in PatientRows}
    /\ providers = {WithId(row, 1) : row \in ProviderRows}
    /\ health_plans = {WithId(row, 1) : row \in PlanRows}
    /\ claims = {}
    /\ xsd_file = Basic
    /\ today = [y |-> 2024, m |-> 12, d |-> 31] /\ ticks = 0
    /\ pc = [w \in Workers |-> "idle"]
    /\ req = [w \in Workers |-> NoRequest]
    /\ fetched = [w \in Workers |-> Absent]
    /\ provisioned = [w \in Workers |-> "not run"]
    /\ resp = [w \in Workers |-> NoResponse]
    /\ AuthInit(MaxRateLimit)
    /\ sessions = 0

TwiceNext ==
    \/ AddClaim
    \/ Midnight
    \/ \E w \in Workers : Begin(w) \/ ValidatorInit(w) \/ DoGenerateTissXml(w) \/ Finish(w)

SpecTwice == TwiceInit /\ [][TwiceNext]_vars

RECURSIVE WithoutProcessingDate(_)
\* the element tree with the text of every ans:dataProcessamento removed
WithoutProcessingDate(e) ==
    [tag    |-> e.tag,
     attrib |-> e.attrib,
     text   |-> IF e.tag = <<"ans", ":", "dataProcessamento">> THEN <<>> ELSE e.text,
     kids   |-> [i \in 1..Len(e.kids) |-> WithoutProcessingDate(e.kids[i])]]

\* both workers hold a document generate_tiss_xml returned for the same claim
GeneratedTwice(v, w) ==
    /\ v # w
    /\ pc[v] = "done" /\ pc[w] = "done"
    /\ req[v].op = "generate_tiss_xml" /\ req[w].op = "generate_tiss_xml"
    /\ req[v].claim_id = req[w].claim_id
    /\ resp[v].exc = "" /\ resp[w].exc = ""

\* C12: two calls of generate_tiss_xml for the same claim, the rows
\* unchanged, return documents that are equal in everything but the text of
\* the dataProcessamento elements.
C12_SameButProcessingDate ==
    \A v \in Workers, w \in Workers : GeneratedTwice(v, w) =>
        /\ resp[v].xml.decl = resp[w].xml.decl /\ resp[v].xml.wf /\ resp[w].xml.wf
        /\ WithoutProcessingDate(resp[v].xml.root) = WithoutProcessingDate(resp[w].xml.root)

\* two documents of the same claim that differ, generated on different days
C12_Witness ==
    \E v \in Workers, w \in Workers :
        /\ GeneratedTwice(v, w)
        /\ resp[v].xml.root # resp[w].xml.root
        /\ resp[v].xml.root.kids[1].kids[3].text # resp[w].xml.root.kids[1].kids[3].text

(***************************************************************************)
(* The claims API: create_claim and update_claim of api/routes/claims.py,  *)
(* the ClaimCreate and ClaimUpdate bodies of schemas/claims.py, the        *)
(* constraints of the claims table and the status methods of Claim.        *)
(* A value of a request body is held in thousandths, a stored value in     *)
(* hundredths.                                                             *)
(***************************************************************************)
\* a field the request body does not carry (exclude_unset drops it)
Unset == "<unset>"

\* an optional value of a request body: not carried, null, or a number
NoValue == [kind |-> Unset, v |-> 0]

NullValue == [kind |-> None, v |-> 0]

SomeValue(v) == [kind |-> "value", v |-> v]

\* the values request bodies carry: -1.000, 0.000, 0.004, 10.500, 19.999
RequestValues == {0 - 1000, 0, 4, 10500, 19999}

RequestStatuses == {"pending", "approved", "denied", "paid", "bogus"}

\* Field(..., gt=0) with every bound accepted
ValidValue_Any(value) == TRUE

\* Field(..., gt=0) of ClaimBase.value and ClaimUpdate.value
ValidValue(value) == value > 0

\* the value as the Numeric(10, 2) column stores it: rounded to hundredths
Quantize(value) == (value + 5) \div 10

\* the NOT NULL and CHECK constraints of the claims table on a row
ConstraintsHold(row) ==
    /\ row.value > 0
    /\ row.status \in {"pending", "approved", "denied", "paid"}

\* the outcome of a handler: the response and the rows of the table after it
Outcome(status, detail, rows) == [status |-> status, detail |-> detail, rows |-> rows]

\* create_claim with the provider looked up before the patient
CreateClaimResult_ProviderFirst(body) ==
    IF ~ValidValue(body.value) THEN Outcome(422, <<"value">>, claims)
    ELSE IF Find(providers, body.provider_id) = NoRow
    THEN Outcome(400, <<"Provider not found">>, claims)
    ELSE IF Find(patients, body.patient_id) = NoRow
    THEN Outcome(400, <<"Patient not found">>, claims)
    ELSE IF Find(health_plans, body.plan_id) = NoRow
    THEN Outcome(400, <<"Health plan not found">>, claims)
    ELSE LET row == [body EXCEPT !.value = Quantize(body.value)] IN
         IF ~ConstraintsHold(row) THEN Outcome(500, <<"Error creating claim: ">>, claims)
         ELSE Outcome(201, <<>>, claims \cup {WithId(row, NextId(claims))})

\* create_claim, after the validation of the ClaimCreate body
CreateClaimResult(body) ==
    IF ~ValidValue(body.value) THEN Outcome(422, <<"value">>, claims)
    ELSE IF Find(patients, body.patient_id) = NoRow
    THEN Outcome(400, <<"Patient not found">>, claims)
    ELSE IF Find(providers, body.provider_id) = NoRow
    THEN Outcome(400, <<"Provider not found">>, claims)
    ELSE IF Find(health_plans, body.plan_id) = NoRow
    THEN Outcome(400, <<"Health plan not found">>, claims)
    ELSE LET row == [body EXCEPT !.value = Quantize(body.value)] IN
         IF ~ConstraintsHold(row) THEN Outcome(500, <<"Error creating claim: ">>, claims)
         ELSE Outcome(201, <<>>, claims \cup {WithId(row, NextId(claims))})

\* setattr(db_claim, field, value) for every field the body carries
ApplyUpdate(row, body) ==
    [row EXCEPT !.value = IF body.value.kind = "value" THEN Quantize(body.value.v) ELSE @,
                !.status = IF body.status = Unset THEN @ ELSE body.status]

\* update_claim, after the validation of the ClaimUpdate body
UpdateClaimResult(claim_id, body) ==
    IF body.value.kind = "value" /\ ~ValidValue(body.value.v)
    THEN Outcome(422, <<"value">>, claims)
    ELSE LET db_claim == Find(claims, claim_id) IN
    IF db_claim = NoRow THEN Outcome(404, <<"Claim not found">>, claims)
    ELSE LET row == ApplyUpdate(db_claim, body) IN
         \* value = None breaks NOT NULL at the commit
         IF body.value = NullValue \/ ~ConstraintsHold(row)
         THEN Outcome(500, <<"Error updating claim: ">>, claims)
         ELSE Outcome(200, <<>>, (claims \ {db_claim}) \cup {row})

\* the request of worker w is answered in one step
ApiAnswer(w, request, status, detail) ==
    /\ pc[w] = "idle"
    /\ req' = [req EXCEPT ![w] = request]
    /\ resp' = [resp EXCEPT ![w] = [NoResponse EXCEPT !.status = status, !.detail = detail]]
    /\ pc' = [pc EXCEPT ![w] = "done"]

\* POST /api/claims/
CreateClaim(w) ==
    /\ \E data \in ClaimData, p \in RefIds, v \in RefIds, h \in RefIds,
          value \in RequestValues, status \in {"pending", "approved", "bogus"} :
          LET body == [patient_id |-> p, provider_id |-> v, plan_id |-> h,
                       procedure_code |-> data.procedure_code,
                       diagnosis_code |-> data.diagnosis_code,
                       claim_date |-> data.claim_date, value |-> value,
                       description |-> data.description, status |-> status]
              o == CreateClaimResult(body)
          IN /\ Cardinality(o.rows) <= MaxClaims
             /\ claims' = o.rows
             /\ ApiAnswer(w, [op |-> "create_claim", claim_id |-> 0, text |-> EmptyStr,
                              body |-> body], o.status, o.detail)
    /\ UNCHANGED <<auth, sessions, patients, providers, health_plans, xsd_file, clock, fetched, provisioned>>

\* PUT /api/claims/{claim_id}
UpdateClaim(w) ==
    /\ \E claim_id \in ClaimIds, value \in {NoValue, NullValue} \cup {SomeValue(x) : x \in RequestValues},
          status \in {Unset, None} \cup RequestStatuses :
          LET body == [value |-> value, status |-> status]
              o == UpdateClaimResult(claim_id, body)
          IN /\ claims' = o.rows
             /\ ApiAnswer(w, [op |-> "update_claim", claim_id |-> claim_id,
                              text |-> EmptyStr, body |-> body], o.status, o.detail)
    /\ UNCHANGED <<auth, sessions, patients, providers, health_plans, xsd_file, clock, fetched, provisioned>>

\* a method of Claim called on a stored row, and the commit
ClaimMethod(w, op, claim_id, status, exc) ==
    /\ pc[w] = "idle"
    /\ claims' = {IF r.id = claim_id THEN [r EXCEPT !.status = status] ELSE r : r \in claims}
    /\ req' = [req EXCEPT ![w] = [op |-> op, claim_id |-> claim_id, text |-> EmptyStr]]
    /\ resp' = [resp EXCEPT ![w] = [NoResponse EXCEPT !.exc = exc]]
    /\ pc' = [pc EXCEPT ![w] = "done"]
    /\ UNCHANGED <<auth, sessions, patients, providers, health_plans, xsd_file, clock, fetched, provisioned>>

\* Claim.approve
Approve(w) == \E r \in claims : ClaimMethod(w, "approve", r.id, "approved", "")

\* Claim.deny
Deny(w) == \E r \in claims : ClaimMethod(w, "deny", r.id, "denied", "")

\* Claim.mark_as_paid
MarkAsPaid(w) ==
    \E r \in claims :
        IF r.status = "approved" THEN ClaimMethod(w, "mark_as_paid", r.id, "paid", "")
        ELSE ClaimMethod(w, "mark_as_paid", r.id, r.status, "ValueError")

ClaimsNext ==
    \/ CreateClaim("w1")
    \/ UpdateClaim("w1")
    \/ Approve("w1")
    \/ Deny("w1")
    \/ MarkAsPaid("w1")
    \/ Finish("w1")

SpecClaims == Init /\ [][ClaimsNext]_vars

\* the API request op of worker w is answered in this step
ApiCalled(w, op) == pc[w] = "idle" /\ pc'[w] = "done" /\ req'[w].op = op

\* C13: the status of a stored claim only ever moves pending -> approved,
\* approved -> paid or pending -> denied, whatever approve, deny,
\* mark_as_paid and update requests are made.
C13_StatusTransitions ==
    [][\A r \in claims : \A q \in claims' :
          q.id = r.id /\ q.status # r.status =>
              <<r.status, q.status>> \in {<<"pending", "approved">>,
                                          <<"approved", "paid">>,
                                          <<"pending", "denied">>}]_vars

\* the value a create or update request carries is zero or negative
CarriesNonPositive(request) ==
    \/ request.op = "create_claim" /\ request.body.value <= 0
    \/ request.op = "update_claim" /\ request.body.value.kind = "value"
          /\ request.body.value.v <= 0

\* C14: every stored claim has value > 0, and a create or update request
\* carrying a zero or negative value is answered 422 and leaves the stored
\* claims unchanged.
C14_ValuePositive ==
    [][/\ \A r \in claims' : r.value > 0
       /\ \A w \in Workers :
             (ApiCalled(w, "create_claim") \/ ApiCalled(w, "update_claim"))
                 /\ CarriesNonPositive(req'[w])
             => resp'[w].status = 422 /\ claims' = claims]_vars

\* an update of a stored claim carrying a negative value was answered 422
C14_Witness ==
    \E w \in Workers :
        /\ pc[w] = "done" /\ req[w].op = "update_claim"
        /\ Has(claims, req[w].claim_id)
        /\ req[w].body.value.kind = "value" /\ req[w].body.value.v < 0
        /\ resp[w].status = 422

\* the entity of the first reference of the body that names no row, in the
\* order patient, provider, health plan ("" when all three resolve)
FirstMissingReference(body) ==
    IF ~Has(patients, body.patient_id) THEN "Patient"
    ELSE IF ~Has(providers, body.provider_id) THEN "Provider"
    ELSE IF ~Has(health_plans, body.plan_id) THEN "Health plan"
    ELSE ""

\* C18: create_claim, run on a body that passed validation, looks up the
\* patient, the provider and the health plan in that order; the first one
\* missing gives 400 with the detail "<Entity> not found" and no claim is
\* stored; a claim is stored only when all three exist.
C18_ReferencesChecked ==
    [][\A w \in Workers :
          ApiCalled(w, "create_claim") /\ req'[w].body.value > 0 =>
              LET missing == FirstMissingReference(req'[w].body) IN
              IF missing # ""
              THEN /\ resp'[w].status = 400
                   /\ resp'[w].detail = <<missing \o " not found">>
                   /\ claims' = claims
              ELSE resp'[w].status # 400 /\ (claims' # claims => resp'[w].status = 201)]_vars

\* a create naming a stored patient and neither a stored provider nor a
\* stored health plan was answered "Provider not found"
C18_Witness ==
    \E w \in Workers :
        /\ pc[w] = "done" /\ req[w].op = "create_claim"
        /\ Has(patients, req[w].body.patient_id)
        /\ ~Has(providers, req[w].body.provider_id)
        /\ ~Has(health_plans, req[w].body.plan_id)
        /\ resp[w].status = 400 /\ resp[w].detail = <<"Provider not found">>
        /\ claims = {}

(***************************************************************************)
(* The rate limiter on its own                                             *)
(***************************************************************************)
RateInit ==
    /\ patients = {} /\ providers = {} /\ health_plans = {} /\ claims = {}
    /\ xsd_file = Absent
    /\ today = [y |-> 2024, m |-> 12, d |-> 31] /\ ticks = 0
    /\ pc = [w \in Workers |-> "idle"]
    /\ req = [w \in Workers |-> NoRequest]
    /\ fetched = [w \in Workers |-> Absent]
    /\ provisioned = [w \in Workers |-> "not run"]
    /\ resp = [w \in Workers |-> NoResponse]
    /\ \E limit \in 0..MaxRateLimit : AuthInit(limit)
    /\ sessions = 0

\* check_rate_limit(client_ip, api_key)
CheckRateLimit ==
    /\ \E client_ip \in ClientIps, api_key \in ApiKeys :
          LET key == RateLimitKey(client_ip, api_key)
              r == CheckRateLimitResult(rate_limit_data, key, current_time,
                                        rate_limit_requests)
              found == key \in DOMAIN rate_limit_data
          IN /\ rate_limit_data' = r.data
             /\ checked' = [key |-> key, found |-> found,
                            old_time |-> IF found THEN rate_limit_data[key].old_time ELSE 0,
                            count |-> IF found THEN rate_limit_data[key].count ELSE 0,
                            result |-> r.result]
    /\ UNCHANGED <<sessions, tables, xsd_file, clock, pc, req, fetched, provisioned, resp,
                   rate_limit_requests, current_time>>

\* a second passes
Second ==
    /\ current_time < MaxTime
    /\ current_time' = current_time + 1
    /\ UNCHANGED <<sessions, tables, xsd_file, clock, pc, req, fetched, provisioned, resp,
                   rate_limit_requests, rate_limit_data, checked>>

RateNext == CheckRateLimit \/ Second

SpecRate == RateInit /\ [][RateNext]_vars

\* check_rate_limit is called in this step
CheckStep == current_time' = current_time /\ <<checked, rate_limit_data>>' # <<checked, rate_limit_data>>

\* the pair of the call has a window running: no more than the window's
\* seconds have passed since the first request counted in it
InWindow(key) ==
    key \in DOMAIN rate_limit_data
        /\ current_time - rate_limit_data[key].old_time <= RateLimitWindow

\* the calls admitted so far in the running window of the pair
AdmittedInWindow(key) == IF InWindow(key) THEN rate_limit_data[key].count ELSE 0

\* C15: within one window check_rate_limit admits the first
\* rate_limit_requests calls of a pair and refuses every further one, and
\* no stored count exceeds rate_limit_requests.
C15_AtMostLimit ==
    [][CheckStep =>
          /\ checked'.result = (AdmittedInWindow(checked'.key) < rate_limit_requests)
          /\ \A k \in DOMAIN rate_limit_data' :
                rate_limit_data'[k].count <= rate_limit_requests]_vars

\* C16: a call made more than rate_limit_window seconds after the first
\* request of the pair's window is admitted and starts a window with count 1
\* at the time of the call; a refused call changes nothing, and a call in
\* the window leaves the start of the window where it was.
C16_WindowReset ==
    [][CheckStep =>
          LET key == checked'.key
              found == key \in DOMAIN rate_limit_data
          IN /\ found /\ ~InWindow(key) =>
                   /\ checked'.result
                   /\ rate_limit_data'[key] = [old_time |-> current_time, count |-> 1]
             /\ ~checked'.result => rate_limit_data' = rate_limit_data
             /\ InWindow(key) =>
                   rate_limit_data'[key].old_time = rate_limit_data[key].old_time
             /\ \A k \in (DOMAIN rate_limit_data) \ {key} :
                   rate_limit_data'[k] = rate_limit_data[k]]_vars

\* a pair that had used up its window was admitted after the window's end
C16_Witness ==
    /\ checked.found /\ checked.result
    /\ rate_limit_requests >= 1 /\ checked.count >= rate_limit_requests
    /\ current_time - checked.old_time > RateLimitWindow
    /\ rate_limit_data[checked.key] = [old_time |-> current_time, count |-> 1]

(***************************************************************************)
(* create_patient of api/routes/patients.py.  The handler queries, then    *)
(* commits; the handlers of two requests may interleave between the two.   *)
(***************************************************************************)
PatientBodies ==
    {[name |-> "Race Condition Patient", cpf |-> cpf,
      birth_date |-> [y |-> 1990, m |-> 1, d |-> 1], email |-> email] :
        cpf \in {"123.456.789-01", "987.654.321-00", "111.222.333-44"},
        email \in {"maria.silva@email.com", "john.doe@example.com"}}

\* an exception raised in the try block: the handler of Exception rolls
\* back and raises HTTPException(500) with str(e) in the detail
CreatePatientFails(w, body, e) ==
    /\ req' = [req EXCEPT ![w] = [op |-> "create_patient", claim_id |-> 0,
                                   text |-> EmptyStr, body |-> body]]
    /\ resp' = [resp EXCEPT ![w] =
                  [NoResponse EXCEPT !.status = 500,
                                     !.detail = <<"Error creating patient: ", e>>]]
    /\ pc' = [pc EXCEPT ![w] = "done"]
    /\ UNCHANGED patients

\* create_patient: the queries for the CPF and for the email
CreatePatientCheck(w) ==
    /\ pc[w] = "idle"
    /\ \E body \in PatientBodies :
          IF \E r \in patients : r.cpf = body.cpf
          THEN CreatePatientFails(w, body, "400: Patient with this CPF already exists")
          ELSE IF \E r \in patients : r.email = body.email
          THEN CreatePatientFails(w, body, "400: Patient with this email already exists")
          ELSE /\ req' = [req EXCEPT ![w] = [op |-> "create_patient", claim_id |-> 0,
                                             text |-> EmptyStr, body |-> body]]
               /\ pc' = [pc EXCEPT ![w] = "commit"]
               /\ UNCHANGED <<patients, resp>>
    /\ UNCHANGED <<auth, sessions, providers, health_plans, claims, xsd_file, clock, fetched, provisioned>>

\* create_patient: db.add and db.commit; the unique index on cpf refuses a
\* second row of the same CPF
CreatePatientCommit(w) ==
    /\ pc[w] = "commit"
    /\ IF \E r \in patients : r.cpf = req[w].body.cpf
       THEN CreatePatientFails(w, req[w].body, "IntegrityError")
       ELSE /\ patients' = patients \cup {WithId(req[w].body, NextId(patients))}
            /\ resp' = [resp EXCEPT ![w] = [NoResponse EXCEPT !.status = 201]]
            /\ pc' = [pc EXCEPT ![w] = "done"]
            /\ UNCHANGED req
    /\ UNCHANGED <<auth, sessions, providers, health_plans, claims, xsd_file, clock, fetched, provisioned>>

PatientsNext ==
    \E w \in Workers : CreatePatientCheck(w) \/ CreatePatientCommit(w) \/ Finish(w)

SpecPatients == Init /\ [][PatientsNext]_vars

\* create_patient of worker w is answered in this step
PatientAnswered(w) == pc[w] # "done" /\ pc'[w] = "done" /\ req'[w].op = "create_patient"

\* C17: a create_patient whose CPF belongs to a stored patient is answered
\* 409 with a detail saying the patient already exists and stores nothing;
\* a create is answered 201 only when it stores the row, and no two stored
\* patients share a CPF.
C17_DuplicateIsConflict ==
    [][/\ \A w \in Workers : PatientAnswered(w) =>
             IF \E r \in patients : r.cpf = req'[w].body.cpf
             THEN /\ resp'[w].status = 409
                  /\ patients' = patients
             ELSE resp'[w].status = 201 => patients' # patients
       /\ \A r \in patients' : \A q \in patients' : r.cpf = q.cpf => r = q]_vars

(***************************************************************************)
(* The document generate_tiss_xml returns, over the rows it may find: two  *)
(* providers, two health plans, claims with and without a description and  *)
(* with values down to 0 (a value the CHECK of the claims table refuses    *)
(* where the server enforces it, and generate_tiss_xml reads whatever is   *)
(* stored).                                                                *)
(***************************************************************************)
DocProviderRows ==
    ProviderRows \cup {[name |-> "Clinica Central", cnpj |-> "98.765.432/0001-10",
                        address |-> "Rua das Flores, 100", contact |-> "Dra. Souza"]}

DocPlanRows ==
    PlanRows \cup {[name |-> "Basic", operator_code |-> "BASIC001",
                    registration_number |-> "ANS-98765"]}

DocClaimData ==
    ClaimData \cup
    {[procedure_code |-> "PROC002", diagnosis_code |-> "DIAG002",
      claim_date |-> [y |-> 2024, m |-> 2, d |-> 28], value |-> 5, description |-> ""],
     [procedure_code |-> "PROC003", diagnosis_code |-> None,
      claim_date |-> [y |-> 2024, m |-> 1, d |-> 15], value |-> 0,
      description |-> "Consulta"]}

DocumentInit ==
    /\ patients = {WithId(row, 1) : row \in PatientRows}
    /\ \E row \in DocProviderRows : providers = {WithId(row, 1)}
    /\ \E row \in DocPlanRows : health_plans = {WithId(row, 1)}
    /\ \E data \in DocClaimData :
          claims = {[id |-> 1, patient_id |-> 1, provider_id |-> 1, plan_id |-> 1,
                     procedure_code |-> data.procedure_code,
                     diagnosis_code |-> data.diagnosis_code,
                     claim_date |-> data.claim_date, value |-> data.value,
                     description |-> data.description, status |-> "pending"]}
    /\ xsd_file = Basic
    /\ today = [y |-> 2024, m |-> 12, d |-> 31] /\ ticks = 0
    /\ pc = [w \in Workers |-> "idle"]
    /\ req = [w \in Workers |-> NoRequest]
    /\ fetched = [w \in Workers |-> Absent]
    /\ provisioned = [w \in Workers |-> "not run"]
    /\ resp = [w \in Workers |-> NoResponse]
    /\ AuthInit(MaxRateLimit)
    /\ sessions = 0

DocumentNext ==
    \/ Midnight
    \/ Begin("w1")
    \/ ValidatorInit("w1")
    \/ DoGenerateTissXml("w1")
    \/ Finish("w1")

SpecDocument == DocumentInit /\ [][DocumentNext]_vars

RECURSIVE At(_, _)
\* the descendant of e reached through the first children named ans:<local>
\* for the locals of path, or NoElement
At(e, path) ==
    IF path = <<>> THEN e
    ELSE IF \E i \in 1..Len(e.kids) : e.kids[i].tag = <<"ans", ":", path[1]>>
    THEN At(e.kids[CHOOSE i \in 1..Len(e.kids) :
                      /\ e.kids[i].tag = <<"ans", ":", path[1]>>
                      /\ \A j \in 1..(i - 1) : e.kids[j].tag # <<"ans", ":", path[1]>>],
            Tail(path))
    ELSE NoElement

\* worker w holds a document that generate_tiss_xml returned
Generated(w) ==
    /\ pc[w] = "done" /\ req[w].op = "generate_tiss_xml" /\ resp[w].exc = ""
    /\ resp[w].xml.wf

\* the document of worker w, and the rows it was generated from
Doc(w) == resp[w].xml.root

ClaimOf(w) == Row(claims, req[w].claim_id)

\* C21: in a generated document the header carries the plan's operator code
\* and registration number, the footer's registration number is the literal
\* 123456 whatever the plan, and the provider's CNPJ is the text of
\* cnpjPrestador under the header, the body's provider data and the footer.
C21_HeaderFromPlanFooterFixed ==
    \A w \in Workers : Generated(w) =>
        LET plan == Row(health_plans, ClaimOf(w).plan_id)
            provider == Row(providers, ClaimOf(w).provider_id)
        IN /\ At(Doc(w), <<"cabecalho", "identificacaoOperadora", "codigoOperadora">>).text
                 = <<plan.operator_code>>
           /\ At(Doc(w), <<"cabecalho", "identificacaoOperadora", "registroANS">>).text
                 = <<plan.registration_number>>
           /\ At(Doc(w), <<"rodape", "dadosPrestador", "registroANS">>).text = <<"123456">>
           /\ At(Doc(w), <<"cabecalho", "dadosPrestador", "cnpjPrestador">>).text
                 = <<provider.cnpj>>
           /\ At(Doc(w), <<"corpo", "dadosGuia", "dadosPrestador", "cnpjPrestador">>).text
                 = <<provider.cnpj>>
           /\ At(Doc(w), <<"rodape", "dadosPrestador", "cnpjPrestador">>).text
                 = <<provider.cnpj>>

\* a document generated from the second plan and the second provider
C21_Witness ==
    \E w \in Workers :
        /\ Generated(w)
        /\ Row(health_plans, ClaimOf(w).plan_id).registration_number = "ANS-98765"
        /\ Row(providers, ClaimOf(w).provider_id).cnpj = "98.765.432/0001-10"
        /\ At(Doc(w), <<"rodape", "dadosPrestador", "registroANS">>).text = <<"123456">>

\* the local names of the children of e, in document order
KidNames(e) == [i \in 1..Len(e.kids) |-> e.kids[i].tag[Len(e.kids[i].tag)]]

\* C22: in every generated document the root's children are header, body,
\* footer in that order and the children of dadosGuia are the seven sections
\* in the fixed order, whatever the claim's data.
C22_FixedElementOrder ==
    \A w \in Workers : Generated(w) =>
        /\ KidNames(Doc(w)) = <<"cabecalho", "corpo", "rodape">>
        /\ \A i \in 1..3 : Len(Doc(w).kids[i].tag) = 3 /\ Doc(w).kids[i].tag[1] = "ans"
        /\ KidNames(At(Doc(w), <<"corpo">>)) = <<"dadosGuia">>
        /\ KidNames(At(Doc(w), <<"corpo", "dadosGuia">>)) =
              <<"identificacaoGuia", "dadosBeneficiario", "dadosPrestador",
                "dadosProfissionalExecutante", "dadosProcedimento", "diagnostico",
                "valoresInformados">>

\* a document generated for a claim without procedure code, diagnosis code
\* and description
C22_Witness ==
    \E w \in Workers :
        /\ Generated(w)
        /\ ClaimOf(w).procedure_code = "<None>" /\ ClaimOf(w).diagnosis_code = "<None>"
        /\ ClaimOf(w).description = "<None>"
        /\ Len(At(Doc(w), <<"corpo", "dadosGuia">>).kids) = 7

\* the number of hundredths a decimal text with two places spells
Hundredths(t) ==
    IF Len(t) >= 4 /\ t[Len(t) - 2] = "." /\ AllDigits(SubSeq(t, 1, Len(t) - 3))
       /\ AllDigits(SubSeq(t, Len(t) - 1, Len(t)))
    THEN 100 * Number(SubSeq(t, 1, Len(t) - 3)) + Number(SubSeq(t, Len(t) - 1, Len(t)))
    ELSE 0 - 1

MonetaryPaths ==
    { <<"corpo", "dadosGuia", "dadosProcedimento", "valorProcedimento">>,
      <<"corpo", "dadosGuia", "valoresInformados", "valorTotalGeral">>,
      <<"corpo", "dadosGuia", "valoresInformados", "valorTotalProcedimentos">>,
      <<"rodape", "valorTotalGeral">> }

\* C23: in every generated document the four monetary fields carry one and
\* the same text, the decimal with two places of the claim's value; a value
\* of 0 is written 0.00 and generation does not fail on it.
C23_MonetaryFieldsAgree ==
    \A w \in Workers :
        /\ Generated(w) =>
              /\ \A p \in MonetaryPaths, q \in MonetaryPaths :
                    At(Doc(w), p).text = At(Doc(w), q).text
              /\ \A p \in MonetaryPaths : Hundredths(At(Doc(w), p).text) = ClaimOf(w).value
        /\ pc[w] = "done" /\ req[w].op = "generate_tiss_xml" /\ Resolves(req[w].claim_id)
              => resp[w].exc = ""

\* a document generated for a claim of value 0
C23_Witness ==
    \E w \in Workers :
        /\ Generated(w) /\ ClaimOf(w).value = 0
        /\ At(Doc(w), <<"rodape", "valorTotalGeral">>).text = <<"0", ".", "0", "0">>

DescriptionPath == <<"corpo", "dadosGuia", "dadosProcedimento", "descricaoProcedimento">>

\* C24 as stated: descricaoProcedimento is the claim's description whenever
\* the description is not null, and the generic string only when it is null.
C24_GenericOnlyWhenNull ==
    \A w \in Workers : Generated(w) =>
        At(Doc(w), DescriptionPath).text =
            IF ClaimOf(w).description = "<None>" THEN <<"Procedimento médico">>
            ELSE IF ClaimOf(w).description = "" THEN <<>>
            ELSE <<ClaimOf(w).description>>

\* C24 amended: descricaoProcedimento is the claim's description whenever
\* the description is neither null nor empty, and the generic string when it
\* is null or the empty string.
C24_GenericWhenNullOrEmpty ==
    \A w \in Workers : Generated(w) =>
        At(Doc(w), DescriptionPath).text =
            IF ClaimOf(w).description \in {"<None>", ""} THEN <<"Procedimento médico">>
            ELSE <<ClaimOf(w).description>>

\* a document generated for a claim whose description is the empty string
C24_Witness ==
    \E w \in Workers :
        /\ Generated(w) /\ ClaimOf(w).description = ""
        /\ At(Doc(w), DescriptionPath).text = <<"Procedimento médico">>

\* C27: in one generated document the processing date of the header and
\* the processing date of the footer are the same date.
C27_OneProcessingDate ==
    \A w \in Workers : Generated(w) =>
        At(Doc(w), <<"cabecalho", "dataProcessamento">>).text
            = At(Doc(w), <<"rodape", "dataProcessamento">>).text

(***************************************************************************)
(* generate_tiss_xml between requests that change the stored claim         *)
(***************************************************************************)
EffectsNext ==
    \/ Midnight
    \/ UpdateClaim("w1")
    \/ Begin("w1")
    \/ ValidatorInit("w1")
    \/ DoGenerateTissXml("w1")
    \/ Finish("w1")

SpecEffects == DocumentInit /\ [][EffectsNext]_vars

\* C25: a call of generate_tiss_xml, returning or raising, leaves the four
\* tables and the schema file as they were and leaves no session open that
\* it opened; the document it returns is made of the rows as stored at the
\* call, not of rows read by an earlier call.
C25_NoSideEffects ==
    [][\A w \in Workers : Called(w, "generate_tiss_xml") =>
          /\ patients' = patients /\ providers' = providers
          /\ health_plans' = health_plans /\ claims' = claims
          /\ xsd_file' = xsd_file
          /\ sessions' = sessions
          /\ resp'[w].exc = "" =>
                LET root == resp'[w].xml.root
                    claim == Row(claims, req'[w].claim_id)
                IN /\ Hundredths(At(root, <<"rodape", "valorTotalGeral">>).text) = claim.value
                   /\ At(root, <<"cabecalho", "numeroProtocolo">>).text
                         = IntStr(claim.id)]_vars

\* generate_tiss_xml has raised and no session is open; the stored claim
\* was updated before the call
C25_Witness ==
    \E w \in Workers :
        /\ pc[w] = "done" /\ req[w].op = "generate_tiss_xml"
        /\ resp[w].exc = "ValueError"
        /\ \E r \in claims : r.value \notin {d.value : d \in DocClaimData}
        /\ sessions = 0

(***************************************************************************)
(* validate_tiss_xml of one validator while another is constructed over    *)
(* the same schema directory                                               *)
(***************************************************************************)
RaceValidateNext ==
    \E w \in Workers : Begin(w) \/ Provision(w) \/ DoValidateTissXml(w) \/ Finish(w)

SpecRaceValidate == Init /\ [][RaceValidateNext]_vars

\* the constructor of worker w has returned and the schema file is in place:
\* it exists and loads
InPlaceFor(w) ==
    pc[w] = "constructed" /\ provisioned[w] # "False" /\ IsSchemaLoaded(xsd_file)

\* an answer of validate_tiss_xml that blames the syntax of what was parsed
\* or the schema
BlamesParsing(errors) ==
    \E i \in 1..Len(errors) :
        errors[i][1] \in {"XML Syntax Error: ", "XSD Schema Parse Error: "}

\* C26: once a validator's constructor has returned with the schema file
\* in place, no step of another constructor makes the file missing, empty,
\* partly written or otherwise unloadable while that validator is in use,
\* so its validate_tiss_xml answers a well-formed document without a syntax
\* or schema parse error.
C26_NeverSeesPartialFile ==
    [][\A w \in Workers :
          /\ InPlaceFor(w) /\ pc'[w] = "constructed" =>
                xsd_file' \notin {"absent", "truncated", "interleaved"}
                /\ IsSchemaLoaded(xsd_file')
          /\ InPlaceFor(w) /\ Called(w, "validate_tiss_xml") /\ Parses(req'[w].text) =>
                ~BlamesParsing(resp'[w].errors)]_vars

(***************************************************************************)
(* get_schema_info against is_schema_loaded and validate_tiss_xml          *)
(***************************************************************************)
\* validate_tiss_xml answers some input with a schema parse error
SchemaParseErrorFor(file) ==
    \E text \in InputTexts, accepted \in BOOLEAN :
        \E i \in 1..Len(ValidateTissXml(file, text, accepted).errors) :
            ValidateTissXml(file, text, accepted).errors[i][1] = "XSD Schema Parse Error: "

\* C28: whenever get_schema_info reports loaded, is_schema_loaded is true
\* and validate_tiss_xml answers no input with a schema parse error; a file
\* that exists and does not compile into a schema is reported as error.
C28_LoadedMeansUsable ==
    [][\A w \in Workers : Called(w, "get_schema_info") =>
          /\ resp'[w].info = "loaded" =>
                IsSchemaLoaded(xsd_file) /\ ~SchemaParseErrorFor(xsd_file)
          /\ XsdFileExists(xsd_file) /\ ~(FileParses(xsd_file) /\ FileCompiles(xsd_file)) =>
                resp'[w].info = "error"]_vars

(***************************************************************************)
(* APIKeyAuth.authenticate of middleware/auth.py                           *)
(***************************************************************************)
\* self.valid_api_keys
ValidApiKeys == ApiKeys \cup {"secondary-api-key-2024", "admin-api-key-2024"}

\* what a request presents as its key: no header (None), an empty header,
\* a key that is not valid, a valid key
PresentedKeys == {None, "", "invalid-key"} \cup ApiKeys

\* validate_api_key
ValidateApiKey(api_key) == ~Falsy(api_key) /\ api_key \in ValidApiKeys

\* authenticate with the rate limit checked before the key
AuthenticateResult_RateFirst(data, client_ip, api_key, now, limit) ==
    LET r == CheckRateLimitResult(data, RateLimitKey(client_ip, api_key), now, limit) IN
    IF ~r.result THEN [status |-> 429, data |-> r.data, checked |-> TRUE]
    ELSE IF ~ValidateApiKey(api_key) THEN [status |-> 401, data |-> r.data, checked |-> TRUE]
    ELSE [status |-> 200, data |-> r.data, checked |-> TRUE]

\* authenticate: the status it answers with (200 when it returns), the
\* dictionary afterwards, and whether check_rate_limit ran
AuthenticateResult(data, client_ip, api_key, now, limit) ==
    IF ~ValidateApiKey(api_key) THEN [status |-> 401, data |-> data, checked |-> FALSE]
    ELSE LET r == CheckRateLimitResult(data, RateLimitKey(client_ip, api_key), now, limit) IN
         IF ~r.result THEN [status |-> 429, data |-> r.data, checked |-> TRUE]
         ELSE [status |-> 200, data |-> r.data, checked |-> TRUE]

\* a request passes through require_auth
Authenticate(w) ==
    /\ \E client_ip \in ClientIps, api_key \in PresentedKeys :
          LET key == RateLimitKey(client_ip, api_key)
              found == key \in DOMAIN rate_limit_data
              a == AuthenticateResult(rate_limit_data, client_ip, api_key, current_time,
                                      rate_limit_requests)
          IN /\ rate_limit_data' = a.data
             /\ checked' = IF a.checked
                            THEN [key |-> key, found |-> found,
                                  old_time |-> IF found THEN rate_limit_data[key].old_time
                                               ELSE 0,
                                  count |-> IF found THEN rate_limit_data[key].count ELSE 0,
                                  result |-> a.status = 200]
                            ELSE checked
             /\ ApiAnswer(w, [op |-> "authenticate", claim_id |-> 0, text |-> EmptyStr,
                              body |-> [client_ip |-> client_ip, api_key |-> api_key]],
                          a.status,
                          IF a.status = 401 THEN <<"Invalid or missing API key">>
                          ELSE IF a.status = 429
                          THEN <<"Rate limit exceeded. Please try again later.">>
                          ELSE <<>>)
    /\ UNCHANGED <<sessions, tables, xsd_file, clock, fetched, provisioned,
                   rate_limit_requests, current_time>>

AuthNext == Authenticate("w1") \/ Finish("w1") \/ Second

SpecAuth == RateInit /\ [][AuthNext]_vars

\* C29: authenticate answers 401 exactly to a request whose key is missing
\* or not valid, and such a request leaves rate_limit_data unchanged; 429 is
\* answered only to a request with a valid key.
C29_KeyBeforeRateLimit ==
    [][\A w \in Workers : ApiCalled(w, "authenticate") =>
          LET valid == req'[w].body.api_key \in
                         {"default-secure-api-key-2024", "secondary-api-key-2024",
                          "admin-api-key-2024"}
          IN /\ resp'[w].status = 401 <=> ~valid
             /\ resp'[w].status = 401 => rate_limit_data' = rate_limit_data
             /\ resp'[w].status = 429 => valid
             /\ \A k \in DOMAIN rate_limit_data' :
                   \E ip \in ClientIps :
                       k = ip \o ":" \o "default-secure-api-key-2024"]_vars

\* a request without a valid key has been answered 401 while the quota of
\* a valid pair is used up
C29_Witness ==
    \E w \in Workers :
        /\ pc[w] = "done" /\ req[w].op = "authenticate" /\ resp[w].status = 401
        /\ rate_limit_requests > 0
        /\ \E k \in DOMAIN rate_limit_data :
              rate_limit_data[k].count = rate_limit_requests

(***************************************************************************)
(* Requests that create, update and delete patients, providers, health     *)
(* plans and claims, one after the other                                   *)
(***************************************************************************)
\* db.delete(parent) that leaves the parent's claims in the table
Cascade_Kept(rows, column, id) == rows

\* relationship("Claim", ..., cascade="all, delete-orphan") of the parent and
\* ForeignKey(..., ondelete="CASCADE") of the column: the claims of the
\* deleted parent are deleted with it
Cascade(rows, column, id) == {r \in rows : r[column] # id}

\* the outcome of a handler that deletes from table: the response, the rows
\* of table and the rows of claims after it
Deleted(status, detail, parents, rows) ==
    [status |-> status, detail |-> detail, parents |-> parents, rows |-> rows]

\* the query, db.delete and db.commit of delete_patient, delete_provider and
\* delete_health_plan
DeleteParentResult(table, id, entity, column) ==
    IF Find(table, id) = NoRow
    THEN Deleted(404, <<entity \o " not found">>, table, claims)
    ELSE Deleted(204, <<>>, table \ {Find(table, id)}, Cascade(claims, column, id))

\* DELETE /api/patients/{patient_id}
DeletePatient(w) ==
    /\ \E patient_id \in RefIds :
          LET o == DeleteParentResult(patients, patient_id, "Patient", "patient_id") IN
          /\ patients' = o.parents
          /\ claims' = o.rows
          /\ ApiAnswer(w, [op |-> "delete_patient", claim_id |-> patient_id,
                           text |-> EmptyStr], o.status, o.detail)
    /\ UNCHANGED <<auth, sessions, providers, health_plans, xsd_file, clock, fetched, provisioned>>

\* DELETE /api/providers/{provider_id}; the provider has no contracts and no
\* professionals
DeleteProvider(w) ==
    /\ \E provider_id \in RefIds :
          LET o == DeleteParentResult(providers, provider_id, "Provider", "provider_id") IN
          /\ providers' = o.parents
          /\ claims' = o.rows
          /\ ApiAnswer(w, [op |-> "delete_provider", claim_id |-> provider_id,
                           text |-> EmptyStr], o.status, o.detail)
    /\ UNCHANGED <<auth, sessions, patients, health_plans, xsd_file, clock, fetched, provisioned>>

\* DELETE /api/health-plans/{plan_id}
DeleteHealthPlan(w) ==
    /\ \E plan_id \in RefIds :
          LET o == DeleteParentResult(health_plans, plan_id, "Health plan", "plan_id") IN
          /\ health_plans' = o.parents
          /\ claims' = o.rows
          /\ ApiAnswer(w, [op |-> "delete_health_plan", claim_id |-> plan_id,
                           text |-> EmptyStr], o.status, o.detail)
    /\ UNCHANGED <<auth, sessions, patients, providers, xsd_file, clock, fetched, provisioned>>

\* delete_claim, for a request that require_auth lets through
DeleteClaimResult(claim_id) ==
    IF Find(claims, claim_id) = NoRow THEN Outcome(404, <<"Claim not found">>, claims)
    ELSE Outcome(204, <<>>, claims \ {Find(claims, claim_id)})

\* DELETE /api/claims/{claim_id}
DeleteClaim(w) ==
    /\ \E claim_id \in ClaimIds :
          LET o == DeleteClaimResult(claim_id) IN
          /\ claims' = o.rows
          /\ ApiAnswer(w, [op |-> "delete_claim", claim_id |-> claim_id,
                           text |-> EmptyStr], o.status, o.detail)
    /\ UNCHANGED <<auth, sessions, patients, providers, health_plans, xsd_file, clock, fetched, provisioned>>

\* the bodies of the requests that create patients: a patient of another
\* CPF and email than the stored one
NewPatients ==
    {b \in PatientBodies : b.cpf = "987.654.321-00" /\ b.email = "john.doe@example.com"}

\* create_patient when no other request runs between its queries and its
\* commit: the queries for the CPF and the email, whose HTTPException(400)
\* the handler of Exception turns into a 500, then db.add and db.commit
CreatePatientResult(body) ==
    IF \E r \in patients : r.cpf = body.cpf
    THEN Outcome(500, <<"Error creating patient: ",
                        "400: Patient with this CPF already exists">>, patients)
    ELSE IF \E r \in patients : r.email = body.email
    THEN Outcome(500, <<"Error creating patient: ",
                        "400: Patient with this email already exists">>, patients)
    ELSE Outcome(201, <<>>, patients \cup {WithId(body, NextId(patients))})

\* POST /api/patients/
CreatePatient(w) ==
    /\ \E body \in NewPatients :
          LET o == CreatePatientResult(body) IN
          /\ patients' = o.rows
          /\ ApiAnswer(w, [op |-> "create_patient", claim_id |-> 0, text |-> EmptyStr,
                           body |-> body], o.status, o.detail)
    /\ UNCHANGED <<auth, sessions, providers, health_plans, claims, xsd_file, clock, fetched, provisioned>>

\* create_provider: the query for the CNPJ, whose HTTPException(400) the
\* handler of Exception turns into a 500, then db.add and db.commit
CreateProviderResult(body) ==
    IF \E r \in providers : r.cnpj = body.cnpj
    THEN Outcome(500, <<"Error creating provider: ",
                        "400: Provider with this CNPJ already exists">>, providers)
    ELSE Outcome(201, <<>>, providers \cup {WithId(body, NextId(providers))})

\* POST /api/providers/
CreateProvider(w) ==
    /\ \E body \in ProviderRows :
          LET o == CreateProviderResult(body) IN
          /\ providers' = o.rows
          /\ ApiAnswer(w, [op |-> "create_provider", claim_id |-> 0, text |-> EmptyStr,
                           body |-> body], o.status, o.detail)
    /\ UNCHANGED <<auth, sessions, patients, health_plans, claims, xsd_file, clock, fetched, provisioned>>

\* create_health_plan: db.add and db.commit; the unique index on
\* registration_number refuses a second row of the same number
CreateHealthPlanResult(body) ==
    IF \E r \in health_plans : r.registration_number = body.registration_number
    THEN Outcome(500, <<"Error creating health plan: ", "IntegrityError">>, health_plans)
    ELSE Outcome(201, <<>>, health_plans \cup {WithId(body, NextId(health_plans))})

\* POST /api/health-plans/
CreateHealthPlan(w) ==
    /\ \E body \in PlanRows :
          LET o == CreateHealthPlanResult(body) IN
          /\ health_plans' = o.rows
          /\ ApiAnswer(w, [op |-> "create_health_plan", claim_id |-> 0, text |-> EmptyStr,
                           body |-> body], o.status, o.detail)
    /\ UNCHANGED <<auth, sessions, patients, providers, claims, xsd_file, clock, fetched, provisioned>>

\* the requests of one client, each answered before the next is sent; ids
\* stay among those a request can name
IntegrityNext ==
    \/ CreateClaim("w1") /\ NextId(claims) \in ClaimIds
    \/ UpdateClaim("w1")
    \/ DeleteClaim("w1")
    \/ CreatePatient("w1") /\ NextId(patients) \in RefIds
    \/ DeletePatient("w1")
    \/ CreateProvider("w1")
    \/ DeleteProvider("w1")
    \/ CreateHealthPlan("w1")
    \/ DeleteHealthPlan("w1")
    \/ Begin("w1")
    \/ ValidatorInit("w1")
    \/ DoGenerateTissXml("w1")
    \/ Finish("w1")

SpecIntegrity == TwiceInit /\ [][IntegrityNext]_vars

\* the message of a failed lookup of a relation of the claim
MissingRelation(msg) ==
    \E i \in 1..Len(msg) :
        msg[i] \in {"Patient with ID ", "Provider with ID ", "Health plan with ID "}

\* C30: over every sequence of create, update and delete requests on
\* patients, providers, health plans and claims, each stored claim
\* references a stored patient, provider and health plan, no request gives
\* a stored claim another patient, provider or health plan, and
\* generate_tiss_xml on a stored claim never fails with a missing relation.
C30_ReferentialIntegrity ==
    [][/\ \A c \in claims' :
             /\ Has(patients', c.patient_id)
             /\ Has(providers', c.provider_id)
             /\ Has(health_plans', c.plan_id)
       /\ \A c \in claims, d \in claims' :
             (c.id = d.id /\ req'["w1"].op = "update_claim") =>
                 /\ d.patient_id = c.patient_id
                 /\ d.provider_id = c.provider_id
                 /\ d.plan_id = c.plan_id
       /\ (Called("w1", "generate_tiss_xml") /\ Has(claims, req'["w1"].claim_id))
             => /\ resp'["w1"].exc = ""
                /\ ~MissingRelation(resp'["w1"].msg)]_vars

\* the first patient has been deleted, and generate_tiss_xml has returned
\* the document of a claim created since for the patient stored after it
C30_Witness ==
    /\ pc["w1"] = "done"
    /\ req["w1"].op = "generate_tiss_xml"
    /\ resp["w1"].exc = ""
    /\ resp["w1"].xml # EmptyStr
    /\ ~Has(patients, 1)
    /\ \E c \in claims : c.id = req["w1"].claim_id /\ c.patient_id = 2

====
